---- MODULE Spec2Model ----
(***************************************************************************)
(* The dashboard server of luma_demo_construction_company/flask_server:    *)
(* the /api/dashboard-config handler over its two static tables.           *)
(*                                                                         *)
(* Role strings are sequences of one-character strings, so that            *)
(* str.lower() and str.replace(" ", "_") are computed character by         *)
(* character.  Preference names are sequences too (a JSON string is one   *)
(* kind of value).  Tile ids and format names are constants of the code    *)
(* that are only ever compared, and are TLA+ strings.                      *)
(***************************************************************************)
EXTENDS Integers, Sequences, FiniteSets, TLC

VARIABLES prev, last

\* app.py of luma_demo_construction_company: the worker registry, the queen's
\* stored decisions, the number of assign-workers requests served and the
\* latest exchange with an endpoint other than /api/dashboard-config
VARIABLES worker_agents, design_decisions, assign_requests, srv_last

\* the worker_tasks of the assign-workers requests handled so far, in order
VARIABLE assign_log

dashboard_vars == <<prev, last>>

server_vars ==
    <<worker_agents, design_decisions, assign_requests, srv_last, assign_log>>

\* the databases and their connections: the PostgreSQL database of
\* luma_demo_construction_company, the SQLite database of src/app.py, the
\* number of connections left open, the latest database exchange
VARIABLES pg_db, sq_db, open_connections, db_last

db_vars == <<pg_db, sq_db, open_connections, db_last>>

\* worker_ai.py: the rows of the conversation_history table in the order
\* they were saved, and the latest process_message call
VARIABLES conversation_history, wa_last

wa_vars == <<conversation_history, wa_last>>

\* worker_ai.py, dashboard layouts: the user_preferences table, the clock
\* that datetime.now() reads, and the last call of a layout route
VARIABLES user_preferences, pref_clock, layout_last

\* the layout of the latest successful save for each (user_id, role)
VARIABLE saved_layouts

pref_vars == <<user_preferences, pref_clock, layout_last, saved_layouts>>

\* the cleanup scripts: the tables of the database files they open, and
\* the last call of one of their functions
VARIABLES clean_db, clean_last

clean_vars == <<clean_db, clean_last>>

vars == <<dashboard_vars, server_vars, db_vars, wa_vars, pref_vars, clean_vars>>

(* ---- role names, as Python str values --------------------------------- *)

ROLE_project_manager ==
    <<"p", "r", "o", "j", "e", "c", "t", "_", "m", "a", "n", "a", "g", "e", "r">>

ROLE_ceo ==
    <<"c", "e", "o">>

ROLE_site_supervisor ==
    <<"s", "i", "t", "e", "_", "s", "u", "p", "e", "r", "v", "i", "s", "o", "r">>

ROLE_safety_officer ==
    <<"s", "a", "f", "e", "t", "y", "_", "o", "f", "f", "i", "c", "e", "r">>

ROLE_construction_worker ==
    <<"c", "o", "n", "s", "t", "r", "u", "c", "t", "i", "o", "n", "_", "w", "o", "r", "k", "e", "r">>

ROLE_inventory_manager ==
    <<"i", "n", "v", "e", "n", "t", "o", "r", "y", "_", "m", "a", "n", "a", "g", "e", "r">>


(* ---- role_priorities: each dict is its items() in insertion order ------ *)

PRIORITIES_project_manager ==
    << [tile_id |-> "project_overview", priority |-> 1],
       [tile_id |-> "task_progress", priority |-> 2],
       [tile_id |-> "team_members", priority |-> 3],
       [tile_id |-> "project_timeline", priority |-> 3],
       [tile_id |-> "progress_tracking", priority |-> 4],
       [tile_id |-> "material_inventory", priority |-> 5],
       [tile_id |-> "safety_incidents", priority |-> 4],
       [tile_id |-> "equipment_status", priority |-> 6],
       [tile_id |-> "daily_tasks", priority |-> 7] >>

PRIORITIES_ceo ==
    << [tile_id |-> "project_overview", priority |-> 1],
       [tile_id |-> "project_timeline", priority |-> 2],
       [tile_id |-> "progress_tracking", priority |-> 3],
       [tile_id |-> "team_members", priority |-> 4],
       [tile_id |-> "safety_incidents", priority |-> 5],
       [tile_id |-> "material_inventory", priority |-> 6],
       [tile_id |-> "equipment_status", priority |-> 7],
       [tile_id |-> "task_progress", priority |-> 3],
       [tile_id |-> "daily_tasks", priority |-> 8] >>

PRIORITIES_site_supervisor ==
    << [tile_id |-> "task_progress", priority |-> 1],
       [tile_id |-> "project_overview", priority |-> 2],
       [tile_id |-> "team_members", priority |-> 3],
       [tile_id |-> "daily_tasks", priority |-> 3],
       [tile_id |-> "progress_tracking", priority |-> 4],
       [tile_id |-> "material_inventory", priority |-> 5],
       [tile_id |-> "equipment_status", priority |-> 6],
       [tile_id |-> "project_timeline", priority |-> 7],
       [tile_id |-> "safety_incidents", priority |-> 4] >>

PRIORITIES_safety_officer ==
    << [tile_id |-> "safety_incidents", priority |-> 1],
       [tile_id |-> "progress_tracking", priority |-> 2],
       [tile_id |-> "daily_tasks", priority |-> 3],
       [tile_id |-> "project_timeline", priority |-> 4],
       [tile_id |-> "project_overview", priority |-> 5],
       [tile_id |-> "task_progress", priority |-> 6],
       [tile_id |-> "team_members", priority |-> 7],
       [tile_id |-> "equipment_status", priority |-> 8],
       [tile_id |-> "material_inventory", priority |-> 9] >>

PRIORITIES_construction_worker ==
    << [tile_id |-> "task_progress", priority |-> 1],
       [tile_id |-> "daily_tasks", priority |-> 2],
       [tile_id |-> "material_inventory", priority |-> 2],
       [tile_id |-> "safety_incidents", priority |-> 3],
       [tile_id |-> "team_members", priority |-> 4],
       [tile_id |-> "progress_tracking", priority |-> 5],
       [tile_id |-> "equipment_status", priority |-> 5],
       [tile_id |-> "project_overview", priority |-> 6],
       [tile_id |-> "project_timeline", priority |-> 7] >>

PRIORITIES_inventory_manager ==
    << [tile_id |-> "material_inventory", priority |-> 1],
       [tile_id |-> "equipment_status", priority |-> 2],
       [tile_id |-> "progress_tracking", priority |-> 4],
       [tile_id |-> "daily_tasks", priority |-> 5],
       [tile_id |-> "project_timeline", priority |-> 6],
       [tile_id |-> "project_overview", priority |-> 7],
       [tile_id |-> "team_members", priority |-> 9],
       [tile_id |-> "task_progress", priority |-> 8],
       [tile_id |-> "safety_incidents", priority |-> 10] >>

role_priorities ==
    (ROLE_project_manager :> PRIORITIES_project_manager)
    @@ (ROLE_ceo :> PRIORITIES_ceo)
    @@ (ROLE_site_supervisor :> PRIORITIES_site_supervisor)
    @@ (ROLE_safety_officer :> PRIORITIES_safety_officer)
    @@ (ROLE_construction_worker :> PRIORITIES_construction_worker)
    @@ (ROLE_inventory_manager :> PRIORITIES_inventory_manager)

(* ---- preference names, as Python str values ---------------------------- *)

PREF_technical ==
    <<"t", "e", "c", "h", "n", "i", "c", "a", "l">>

PREF_balanced ==
    <<"b", "a", "l", "a", "n", "c", "e", "d">>

PREF_non_technical ==
    <<"n", "o", "n", "_", "t", "e", "c", "h", "n", "i", "c", "a", "l">>


(* ---- visualization_formats -------------------------------------------- *)

FORMATS_technical ==
    ("project_overview" :> "detailed_table")
    @@ ("task_progress" :> "detailed_table")
    @@ ("team_members" :> "detailed_table")
    @@ ("material_inventory" :> "detailed_table")
    @@ ("safety_incidents" :> "detailed_table")
    @@ ("equipment_status" :> "detailed_table")
    @@ ("project_timeline" :> "timeline_with_details")
    @@ ("daily_tasks" :> "detailed_table")
    @@ ("progress_tracking" :> "detailed_table")

FORMATS_balanced ==
    ("project_overview" :> "summary_table")
    @@ ("task_progress" :> "bar_chart")
    @@ ("team_members" :> "summary_table")
    @@ ("material_inventory" :> "summary_table")
    @@ ("safety_incidents" :> "summary_table")
    @@ ("equipment_status" :> "summary_table")
    @@ ("project_timeline" :> "timeline")
    @@ ("daily_tasks" :> "summary_table")
    @@ ("progress_tracking" :> "bar_chart")

FORMATS_non_technical ==
    ("project_overview" :> "simplified_bar_chart")
    @@ ("task_progress" :> "simplified_bar_chart")
    @@ ("team_members" :> "simplified_table")
    @@ ("material_inventory" :> "simplified_table")
    @@ ("safety_incidents" :> "simplified_table")
    @@ ("equipment_status" :> "simplified_table")
    @@ ("project_timeline" :> "simplified_timeline")
    @@ ("daily_tasks" :> "simplified_table")
    @@ ("progress_tracking" :> "simplified_bar_chart")

visualization_formats ==
    (PREF_technical :> FORMATS_technical)
    @@ (PREF_balanced :> FORMATS_balanced)
    @@ (PREF_non_technical :> FORMATS_non_technical)



(* ---- JSON values of the request body ----------------------------------- *)

JStr(s) == [kind |-> "str", val |-> s]

JNull == [kind |-> "null", val |-> <<>>]

JNumber == [kind |-> "number", val |-> <<>>]

JArray == [kind |-> "array", val |-> <<>>]

(* ---- str.lower() and str.replace(old, new) ----------------------------- *)

UpperChars ==
    <<"A", "B", "C", "D", "E", "F", "G", "H", "I", "J", "K", "L", "M",
      "N", "O", "P", "Q", "R", "S", "T", "U", "V", "W", "X", "Y", "Z">>

LowerChars ==
    <<"a", "b", "c", "d", "e", "f", "g", "h", "i", "j", "k", "l", "m",
      "n", "o", "p", "q", "r", "s", "t", "u", "v", "w", "x", "y", "z">>

lower_char(c) ==
    IF \E i \in 1..Len(UpperChars) : UpperChars[i] = c
    THEN LowerChars[CHOOSE i \in 1..Len(UpperChars) : UpperChars[i] = c]
    ELSE c

str_lower_missing(s) ==
    s

str_lower(s) ==
    [i \in 1..Len(s) |-> lower_char(s[i])]

str_replace_missing(s, old, new) ==
    s

\* old and new are single characters at the only call site (" " and "_")
str_replace(s, old, new) ==
    [i \in 1..Len(s) |-> IF s[i] = old THEN new ELSE s[i]]

(* ---- dict.get(key, default) -------------------------------------------- *)

dict_get(d, key, default) ==
    IF key \in DOMAIN d THEN d[key] ELSE default

(* ---- the request fields (app.py lines 211-213) ------------------------- *)

role_value_default_ceo(data) ==
    dict_get(data, "role", JStr(ROLE_ceo))

role_value(data) ==
    dict_get(data, "role", JStr(ROLE_project_manager))

preference_value(data) ==
    dict_get(data, "visualization_preference", JStr(PREF_balanced))

normalized_role(data) ==
    str_replace(str_lower(role_value(data).val), " ", "_")

(* ---- the table lookups with their fallbacks (lines 323-326) ------------ *)

priorities_fallback_ceo(role) ==
    dict_get(role_priorities, role, role_priorities[ROLE_ceo])

priorities_of(role) ==
    dict_get(role_priorities, role, role_priorities[ROLE_project_manager])

formats_fallback_technical(pref) ==
    IF pref.kind = "str"
    THEN dict_get(visualization_formats, pref.val,
                  visualization_formats[PREF_technical])
    ELSE visualization_formats[PREF_technical]

\* a hashable value that is not a str (null, a number) is never a key
formats_of(pref) ==
    IF pref.kind = "str"
    THEN dict_get(visualization_formats, pref.val,
                  visualization_formats[PREF_balanced])
    ELSE visualization_formats[PREF_balanced]

(* ---- building the tile list (lines 334-342) ---------------------------- *)

format_always_default(formats, tile_id) ==
    "summary_table"

format_of(formats, tile_id) ==
    dict_get(formats, tile_id, "summary_table")

build_tiles_drop_last(priorities, formats) ==
    [i \in 1..(Len(priorities) - 1) |->
        [tile_id |-> priorities[i].tile_id,
         priority |-> priorities[i].priority,
         visualization_format |-> format_of(formats, priorities[i].tile_id)]]

build_tiles(priorities, formats) ==
    [i \in 1..Len(priorities) |->
        [tile_id |-> priorities[i].tile_id,
         priority |-> priorities[i].priority,
         visualization_format |-> format_of(formats, priorities[i].tile_id)]]

(* ---- list.sort(key=lambda x: x["priority"]) (line 345) ----------------- *)
(* Python's sort is stable; it is modelled as the stable insertion sort     *)

insert_before_equal(sorted, x) ==
    LET k == Cardinality({i \in 1..Len(sorted) :
                             sorted[i].priority < x.priority})
    IN  SubSeq(sorted, 1, k) \o <<x>> \o SubSeq(sorted, k + 1, Len(sorted))

insert_by_priority(sorted, x) ==
    LET k == Cardinality({i \in 1..Len(sorted) :
                             sorted[i].priority <= x.priority})
    IN  SubSeq(sorted, 1, k) \o <<x>> \o SubSeq(sorted, k + 1, Len(sorted))

RECURSIVE insertion_sort(_)
insertion_sort(l) ==
    IF l = <<>>
    THEN <<>>
    ELSE insert_by_priority(insertion_sort(SubSeq(l, 1, Len(l) - 1)), l[Len(l)])

sort_missing(l) ==
    l

sort_by_priority(l) ==
    insertion_sort(l)

(* ---- the handler ------------------------------------------------------- *)

raises_on_unknown_preference(data) ==
    \/ role_value(data).kind # "str"
    \/ preference_value(data).kind = "array"
    \/ preference_value(data).val \notin DOMAIN visualization_formats

\* .lower() on a value that is not a str is an AttributeError; a list as
\* the key of visualization_formats.get is a TypeError (unhashable)
raises(data) ==
    \/ role_value(data).kind # "str"
    \/ preference_value(data).kind = "array"

ErrorResponse(status) ==
    [status |-> status, role |-> <<>>, visualization_preference |-> JNull,
     tile_configuration |-> <<>>]

dashboard_config(data) ==
    IF raises(data)
    THEN ErrorResponse(500)
    ELSE [status |-> 200,
          role |-> normalized_role(data),
          visualization_preference |-> preference_value(data),
          tile_configuration |->
              sort_by_priority(
                  build_tiles(priorities_of(normalized_role(data)),
                              formats_of(preference_value(data))))]

\* request.json of a request that carries no JSON body: depending on the
\* Flask version it is None (data.get then raises, 500) or the request is
\* refused with 400 or 415
NoJsonStatuses == {400, 415, 500}

Responses(request) ==
    IF request.has_json
    THEN {dashboard_config(request.data)}
    ELSE {ErrorResponse(s) : s \in NoJsonStatuses}

(* ---- requests ---------------------------------------------------------- *)

MaxRoleLen == 1

RoleAlphabet == {"C", " "}

STR_CEO ==
    <<"C", "E", "O">>

STR_Site_Supervisor ==
    <<"S", "i", "t", "e", " ", "S", "u", "p", "e", "r", "v", "i", "s", "o", "r">>

STR_Project_Manager ==
    <<"P", "r", "o", "j", "e", "c", "t", " ", "M", "a", "n", "a", "g", "e", "r">>

STR_Safety_Officer ==
    <<"S", "a", "f", "e", "t", "y", "_", "O", "f", "f", "i", "c", "e", "r">>

STR_foreman ==
    <<"f", "o", "r", "e", "m", "a", "n">>

STR_ceo_trailing_space ==
    <<"c", "e", "o", " ">>

STR_Inventory_Manager_two_spaces ==
    <<"I", "n", "v", "e", "n", "t", "o", "r", "y", " ", " ", "M", "a", "n", "a", "g", "e", "r">>

STR_Technical ==
    <<"T", "e", "c", "h", "n", "i", "c", "a", "l">>

STR_fancy ==
    <<"f", "a", "n", "c", "y">>


RECURSIVE StringsUpTo(_)
StringsUpTo(n) ==
    IF n = 0
    THEN {<<>>}
    ELSE LET shorter == StringsUpTo(n - 1)
         IN  shorter \cup {Append(s, c) : s \in shorter, c \in RoleAlphabet}

RoleStrings ==
    DOMAIN role_priorities
    \cup {STR_CEO, STR_Site_Supervisor, STR_Project_Manager, STR_Safety_Officer,
          STR_foreman, STR_ceo_trailing_space, STR_Inventory_Manager_two_spaces}
    \cup StringsUpTo(MaxRoleLen)

RoleValues ==
    {JStr(s) : s \in RoleStrings} \cup {JNull, JNumber}

PreferenceStrings ==
    DOMAIN visualization_formats \cup {STR_Technical, STR_fancy}

PreferenceValues ==
    {JStr(s) : s \in PreferenceStrings} \cup {JNull, JArray}

EmptyObject == [k \in {} |-> JNull]

Bodies ==
    {EmptyObject}
    \cup {[role |-> r] : r \in RoleValues}
    \cup {[visualization_preference |-> p] : p \in PreferenceValues}
    \cup {[role |-> r, visualization_preference |-> p] :
             r \in RoleValues, p \in PreferenceValues}

Requests ==
    {[has_json |-> TRUE, data |-> d] : d \in Bodies}
    \cup {[has_json |-> FALSE, data |-> EmptyObject]}

(* ---- the worker registry and the queen (app.py lines 26-105) ----------- *)

MaxAssign == 2

\* tiles a layout_design may name
LayoutTiles == {"project_overview", "task_progress"}

\* outputs of the LLM runs: layouts, worker tasks, visualization code
Layouts == {"layoutA", "layoutB"}

WorkerTasks == {"taskA", "taskB"}

Codes == {"code1"}

VisualizationStyles == {"balanced", "technical"}

RoleTypes == {"project_manager"}

EmptyDict == [k \in {} |-> "None"]

\* WorkerAgent.__init__; created_by identifies the instance by the
\* assign-workers request that constructed it
WorkerAgent(tile_id, worker_task, serial) ==
    [tile_id |-> tile_id, worker_task |-> worker_task,
     visualization_code |-> "None", created_by |-> serial]

\* QueenAgent.design_layout: the LLM's layout is stored and returned
design_layout_store(decisions, role_type, layout) ==
    [k \in DOMAIN decisions \cup {role_type} |->
        IF k = role_type THEN layout ELSE decisions[k]]

design_layout_response(layout) ==
    [status |-> 200, body |-> layout]

assign_workers_registry_keep_existing(agents, worker_tasks, serial) ==
    [t \in DOMAIN agents \cup DOMAIN worker_tasks |->
        IF t \in DOMAIN agents
        THEN agents[t]
        ELSE WorkerAgent(t, worker_tasks[t], serial)]

\* assign_workers: one new WorkerAgent per tile of worker_tasks
assign_workers_registry(agents, worker_tasks, serial) ==
    [t \in DOMAIN agents \cup DOMAIN worker_tasks |->
        IF t \in DOMAIN worker_tasks
        THEN WorkerAgent(t, worker_tasks[t], serial)
        ELSE agents[t]]

assign_workers_response_whole_registry(worker_tasks) ==
    [status |-> 200,
     body |-> [t \in DOMAIN worker_agents \cup DOMAIN worker_tasks |->
                  IF t \in DOMAIN worker_tasks
                  THEN worker_tasks[t] ELSE worker_agents[t].worker_task]]

assign_workers_response(worker_tasks) ==
    [status |-> 200, body |-> worker_tasks]

\* WorkerAgent.generate_visualization / update_visualization: the code is
\* stored on the worker and returned with the worker's task metadata
visualization_of(worker, code, style) ==
    [tile_id |-> worker.tile_id, code |-> code,
     metadata |-> worker.worker_task, visualization_preference |-> style]

generate_visualizations_registry(agents, code) ==
    [t \in DOMAIN agents |-> [agents[t] EXCEPT !.visualization_code = code]]

generate_visualizations_response(agents, code, style) ==
    [status |-> 200,
     body |-> [t \in DOMAIN agents |-> visualization_of(agents[t], code, style)]]

update_visualization_registry(agents, tile_id, code) ==
    IF tile_id \notin DOMAIN agents
    THEN agents
    ELSE [agents EXCEPT ![tile_id].visualization_code = code]

NotFound ==
    [tile_id |-> "None", code |-> "None", metadata |-> "None",
     visualization_preference |-> "None"]

update_visualization_response(agents, tile_id, code, style) ==
    IF tile_id \notin DOMAIN agents
    THEN [status |-> 404, body |-> NotFound]
    ELSE [status |-> 200, body |-> visualization_of(agents[tile_id], code, style)]

(* ---- db_utils.py: the PostgreSQL database and its connections ---------- *)

MaxOpenConnections == 3

\* outcomes of the driver calls that the environment decides
ConnectOutcomes ==
    {"ok", "error", "created", "fallback_connect_fails", "create_fails",
     "reconnect_fails"}

CallOutcomes == {"ok", "error"}

Environments ==
    [connect : ConnectOutcomes, execute : CallOutcomes, commit : CallOutcomes]

\* the tables db_setup.py creates and seeds (the columns the filters use)
TableColumns(table) ==
    CASE table = "projects" -> {"project_id", "status", "location"}
      [] table = "tasks" -> {"task_id", "project_id", "status", "priority"}
      [] OTHER -> {}

\* (ids as the text a query parameter carries them in)
SeededDatabase ==
    [projects |->
        {[project_id |-> "1", status |-> "In Progress", location |-> "Downtown"],
         [project_id |-> "2", status |-> "Planning", location |-> "Harbor"]},
     tasks |->
        {[task_id |-> "1", project_id |-> "1", status |-> "Completed",
          priority |-> "High"],
         [task_id |-> "2", project_id |-> "1", status |-> "In Progress",
          priority |-> "High"],
         [task_id |-> "3", project_id |-> "2", status |-> "In Progress",
          priority |-> "Low"]}]

\* db_utils.get_db_connection: the connection handed out (if any) and the
\* connections it opened and closed on the way.  When the database cannot
\* be reached it connects to "postgres", creates the database, closes that
\* connection and connects again; a failing CREATE DATABASE propagates from
\* inside the except clause, past cursor.close() and conn.close()
pg_get_db_connection(env) ==
    CASE env.connect = "ok" ->
            [connected |-> TRUE, opened |-> 1, closed |-> 0]
      [] env.connect = "created" ->
            [connected |-> TRUE, opened |-> 2, closed |-> 1]
      [] env.connect = "create_fails" ->
            [connected |-> FALSE, opened |-> 1, closed |-> 0]
      [] env.connect = "reconnect_fails" ->
            [connected |-> FALSE, opened |-> 1, closed |-> 1]
      [] OTHER ->
            [connected |-> FALSE, opened |-> 0, closed |-> 0]

\* SELECT * FROM table WHERE c1 = %s AND ... as PostgreSQL evaluates it
pg_select(db, table, columns, params) ==
    IF table \notin DOMAIN db \/ Len(columns) # Len(params)
          \/ \E i \in 1..Len(columns) : columns[i] \notin TableColumns(table)
    THEN [ok |-> FALSE, rows |-> {}]
    ELSE [ok |-> TRUE,
          rows |-> {r \in db[table] :
                       \A i \in 1..Len(columns) : r[columns[i]] = params[i]}]

\* the outcome of a handler run: what the caller gets (for a route, the
\* HTTP status), the statement sent, the connections opened and closed
Run(outcome, status, result, sql, opened, closed) ==
    [outcome |-> outcome, status |-> status, result |-> result, sql |-> sql,
     opened |-> opened, closed |-> closed]

Statement(query, where_clauses, params) ==
    [query |-> query, where_clauses |-> where_clauses, params |-> params]

NoStatement == Statement("", <<>>, <<>>)

\* app.py get_data (lines 108-123): conn.close() is at the end of the try
\* block only
get_data(db, table_name, env) ==
    LET c == pg_get_db_connection(env)
        q == pg_select(db, table_name, <<>>, <<>>)
        sql == Statement("SELECT * FROM " \o table_name, <<>>, <<>>)
    IN  IF ~c.connected
        THEN Run("returned", 500, {}, NoStatement, c.opened, c.closed)
        ELSE IF env.execute = "error" \/ ~q.ok
             THEN Run("returned", 500, {}, sql, c.opened, c.closed)
             ELSE Run("returned", 200, q.rows, sql, c.opened, c.closed + 1)

(* ---- db_utils.py: the entity getters and their filters ------------------ *)

RECURSIVE join(_, _)
join(sep, parts) ==
    IF parts = <<>> THEN ""
    ELSE IF Len(parts) = 1 THEN parts[1]
    ELSE parts[1] \o sep \o join(sep, Tail(parts))

\* the `if "column" in filters:` blocks, in their order in the source
RECURSIVE used_columns(_, _)
used_columns(supported, filters) ==
    IF supported = <<>> THEN <<>>
    ELSE IF Head(supported) \in DOMAIN filters
         THEN <<Head(supported)>> \o used_columns(Tail(supported), filters)
         ELSE used_columns(Tail(supported), filters)

used_columns_first_only(supported, filters) ==
    IF \E i \in 1..Len(supported) : supported[i] \in DOMAIN filters
    THEN <<supported[CHOOSE i \in 1..Len(supported) :
                /\ supported[i] \in DOMAIN filters
                /\ \A j \in 1..(i - 1) : supported[j] \notin DOMAIN filters]>>
    ELSE <<>>

where_columns(supported, filters) ==
    used_columns(supported, filters)

build_query(table, supported, filters) ==
    LET columns == where_columns(supported, filters)
        where_clauses == [i \in 1..Len(columns) |-> columns[i] \o " = %s"]
        params == [i \in 1..Len(columns) |-> filters[columns[i]]]
        query == "SELECT * FROM " \o table
    IN  IF where_clauses # <<>>
        THEN Statement(query \o " WHERE " \o join(" AND ", where_clauses),
                       where_clauses, params)
        ELSE Statement(query, <<>>, <<>>)

\* get_projects, get_tasks, ...: no try block, so an error of execute
\* propagates and cursor.close() and conn.close() are skipped
entity_getter(db, table, supported, filters, env) ==
    LET c == pg_get_db_connection(env)
        sql == build_query(table, supported, filters)
        q == pg_select(db, table, where_columns(supported, filters), sql.params)
    IN  IF ~c.connected
        THEN Run("raised", 0, {}, NoStatement, c.opened, c.closed)
        ELSE IF env.execute = "error" \/ ~q.ok
             THEN Run("raised", 0, {}, sql, c.opened, c.closed)
             ELSE Run("returned", 0, q.rows, sql, c.opened, c.closed + 1)

ProjectFilters == <<"status", "location", "manager">>

TaskFilters == <<"project_id", "status", "assigned_to", "priority">>

db_get_projects(db, filters, env) ==
    entity_getter(db, "projects", ProjectFilters, filters, env)

db_get_tasks(db, filters, env) ==
    entity_getter(db, "tasks", TaskFilters, filters, env)

\* db_tools.py TasksTool.run: `if project_id:` and so on; None and the empty
\* string are both falsy.  args maps the arguments that are not None
TasksTool_filters(args) ==
    [k \in {a \in DOMAIN args : args[a] # ""} |-> args[k]]

TasksTool_run(db, args, env) ==
    db_get_tasks(db, TasksTool_filters(args), env)

(* ---- SQL text: the str methods the handlers apply to it ----------------- *)

\* (SQL text is kept as a string; SubSeq(s, i, i) is its i-th character)
upper_char(c) ==
    IF \E i \in 1..Len(LowerChars) : LowerChars[i] = c
    THEN UpperChars[CHOOSE i \in 1..Len(LowerChars) : LowerChars[i] = c]
    ELSE c

RECURSIVE str_upper(_)
str_upper(s) ==
    IF Len(s) <= 1 THEN upper_char(s)
    ELSE str_upper(SubSeq(s, 1, Len(s) \div 2))
             \o str_upper(SubSeq(s, Len(s) \div 2 + 1, Len(s)))

RECURSIVE str_lstrip(_)
str_lstrip(s) ==
    IF s # "" /\ SubSeq(s, 1, 1) = " " THEN str_lstrip(Tail(s)) ELSE s

RECURSIVE str_rstrip(_)
str_rstrip(s) ==
    IF s # "" /\ SubSeq(s, Len(s), Len(s)) = " "
    THEN str_rstrip(SubSeq(s, 1, Len(s) - 1))
    ELSE s

str_strip(s) ==
    str_rstrip(str_lstrip(s))

str_startswith(s, prefix) ==
    /\ Len(s) >= Len(prefix)
    /\ SubSeq(s, 1, Len(prefix)) = prefix

\* `sub in s`
str_contains(s, sub) ==
    \E i \in 1..(Len(s) - Len(sub) + 1) : SubSeq(s, i, i + Len(sub) - 1) = sub

(* ---- SQL text as the database engine reads it --------------------------- *)

\* the parts of s between the occurrences of the character sep
str_split(s, sep) ==
    LET at == {i \in 1..Len(s) : SubSeq(s, i, i) = sep}
        n == Cardinality(at)
        nth(k) == CHOOSE i \in at : Cardinality({j \in at : j < i}) = k - 1
        end(k) == IF k = 0 THEN 0 ELSE IF k = n + 1 THEN Len(s) + 1 ELSE nth(k)
    IN  [k \in 1..(n + 1) |-> SubSeq(s, end(k - 1) + 1, end(k) - 1)]

NonEmpty(w) ==
    w # ""

\* keywords and identifiers are case-insensitive and separated by blanks
sql_words(text) ==
    LET w == SelectSeq(str_split(text, " "), NonEmpty)
    IN  [i \in 1..Len(w) |-> str_upper(w[i])]

sql_identifier(word) ==
    CASE word = "PROJECTS" -> "projects"
      [] word = "TASKS" -> "tasks"
      [] word = "NAME" -> "name"
      [] word = "STATUS" -> "status"
      [] word = "PRIORITY" -> "priority"
      [] word = "ID" -> "id"
      [] word = "DESCRIPTION" -> "description"
      [] word = "ASSIGNED_TO" -> "assigned_to"
      [] word = "DUE_DATE" -> "due_date"
      [] OTHER -> word

SqlStatement(kind, table, column) ==
    [kind |-> kind, table |-> table, column |-> column]

\* the statements the handlers send and the callers of the query routes
\* submit; any other text is a syntax error
sql_parse(text) ==
    LET w == sql_words(text)
        n == Len(w)
    IN  CASE w = <<"SELECT", "1">> ->
                SqlStatement("select_one", "", "")
          [] w = <<"SELECT", "LAST_INSERT_ROWID()", "AS", "ID">> ->
                SqlStatement("last_insert_rowid", "", "")
          [] n = 4 /\ SubSeq(w, 1, 3) = <<"SELECT", "*", "FROM">> ->
                SqlStatement("select", sql_identifier(w[4]), "")
          [] n = 8 /\ SubSeq(w, 1, 3) = <<"SELECT", "*", "FROM">>
                   /\ SubSeq(w, 5, 8) = <<"WHERE", "ID", "=", "?">> ->
                SqlStatement("select_by_id", sql_identifier(w[4]), "id")
          [] n = 3 /\ SubSeq(w, 1, 2) = <<"DELETE", "FROM">> ->
                SqlStatement("delete", sql_identifier(w[3]), "")
          [] n = 3 /\ SubSeq(w, 1, 2) = <<"DROP", "TABLE">> ->
                SqlStatement("drop", sql_identifier(w[3]), "")
          [] n = 6 /\ w[1] = "UPDATE" /\ w[3] = "SET"
                   /\ SubSeq(w, 5, 6) = <<"=", "NULL">> ->
                SqlStatement("update", sql_identifier(w[2]), sql_identifier(w[4]))
          [] n > 3 /\ SubSeq(w, 1, 2) = <<"INSERT", "INTO">> ->
                SqlStatement("insert", sql_identifier(w[3]), "")
          [] n >= 10 /\ (n - 7) % 3 = 0 /\ w[1] = "UPDATE" /\ w[3] = "SET"
                   /\ SubSeq(w, n - 3, n) = <<"WHERE", "ID", "=", "?">>
                   /\ \A k \in 1..((n - 7) \div 3) :
                          /\ w[3 * k + 2] = "="
                          /\ w[3 * k + 3] = (IF 3 * k + 3 = n - 4 THEN "?" ELSE "?,") ->
                [kind |-> "update_by_id", table |-> sql_identifier(w[2]),
                 columns |-> [k \in 1..((n - 7) \div 3) |->
                                 sql_identifier(w[3 * k + 1])]]
          [] OTHER ->
                SqlStatement("syntax_error", "", "")

SqlFailed(db) ==
    [ok |-> FALSE, db |-> db, rows |-> {}, returns_rows |-> FALSE, rowcount |-> 0]

SqlRows(db, rows) ==
    [ok |-> TRUE, db |-> db, rows |-> rows, returns_rows |-> TRUE, rowcount |-> 0]

SqlChanged(db, rowcount) ==
    [ok |-> TRUE, db |-> db, rows |-> {}, returns_rows |-> FALSE,
     rowcount |-> rowcount]

\* the largest rowid of the table (0 when it is empty)
max_rowid(rows) ==
    IF rows = {} THEN 0
    ELSE CHOOSE m \in {r.id : r \in rows} : \A r \in rows : r.id <= m

\* the task row an INSERT with the seven parameters of add_task creates
inserted_task(rows, params) ==
    [id |-> max_rowid(rows) + 1, project_id |-> params[1], name |-> params[2],
     description |-> params[3], status |-> params[4], priority |-> params[5],
     assigned_to |-> params[6], due_date |-> params[7]]

\* one statement executed in the open transaction of a connection whose
\* last_insert_rowid() is last_rowid; schema maps a table to its columns
sql_apply(db, schema, statement, params, last_rowid) ==
    LET table == statement.table
        known == table \in DOMAIN db
    IN  CASE statement.kind = "select_one" ->
                SqlRows(db, {[value |-> 1]})
          [] statement.kind = "last_insert_rowid" ->
                SqlRows(db, {[id |-> last_rowid]})
          [] statement.kind = "select" /\ known ->
                SqlRows(db, db[table])
          [] statement.kind = "select_by_id" /\ known /\ Len(params) = 1 ->
                SqlRows(db, {r \in db[table] : r.id = params[1]})
          [] statement.kind = "delete" /\ known ->
                SqlChanged([db EXCEPT ![table] = {}], Cardinality(db[table]))
          [] statement.kind = "drop" /\ known ->
                SqlChanged([name \in DOMAIN db \ {table} |-> db[name]], 0)
          [] statement.kind = "update" /\ known
                /\ statement.column \in schema[table] ->
                SqlChanged([db EXCEPT ![table] =
                               {[r EXCEPT ![statement.column] = "NULL"] : r \in @}],
                           Cardinality(db[table]))
          [] statement.kind = "update_by_id" /\ known
                /\ Len(params) = Len(statement.columns) + 1
                /\ \A k \in 1..Len(statement.columns) :
                       statement.columns[k] \in schema[table] ->
                LET columns == statement.columns
                    at(c) == CHOOSE k \in 1..Len(columns) : columns[k] = c
                    named == {columns[k] : k \in 1..Len(columns)}
                    matched == {r \in db[table] : r.id = params[Len(params)]}
                IN  SqlChanged([db EXCEPT ![table] =
                                   {IF r \in matched
                                    THEN [c \in DOMAIN r |->
                                             IF c \in named THEN params[at(c)]
                                             ELSE r[c]]
                                    ELSE r : r \in @}],
                               Cardinality(matched))
          [] statement.kind = "insert" /\ table = "tasks" /\ known
                /\ Len(params) = 7 ->
                SqlChanged([db EXCEPT !.tasks =
                               @ \cup {inserted_task(@, params)}], 1)
          [] OTHER ->
                SqlFailed(db)

(* ---- db_utils.execute_query and CustomQueryTool.run --------------------- *)

PgSchema ==
    [table \in {"projects", "tasks"} |-> TableColumns(table)]

NotBlank(text) ==
    sql_words(text) # <<>>

\* cursor.execute(query) sends the whole text: PostgreSQL runs the
\* statements between the semicolons one after the other in the
\* transaction, and the cursor holds the result of the last one
pg_statements(query) ==
    SelectSeq(str_split(query, ";"), NotBlank)

RECURSIVE pg_execute(_, _, _)
pg_execute(db, statements, n) ==
    IF n = 0 THEN SqlChanged(db, 0)
    ELSE LET before == pg_execute(db, statements, n - 1)
         IN  IF ~before.ok THEN before
             ELSE sql_apply(before.db, PgSchema, sql_parse(statements[n]),
                            <<>>, 0)

\* what one call of execute_query did: its outcome, the database it leaves,
\* the driver calls it made in order, the connections opened and closed
PgRun(outcome, result, db, events, connection) ==
    [outcome |-> outcome, result |-> result, db |-> db, events |-> events,
     opened |-> connection.opened,
     closed |-> connection.closed
                + IF connection.connected THEN 1 ELSE 0]

\* what the caller gets: the fetched rows, None, or the tool's error value
PgRows(rows) ==
    [kind |-> "rows", rows |-> rows]

PgNone ==
    [kind |-> "None"]

PgError ==
    [kind |-> "error"]

execute_query(db, query, fetch, env) ==
    LET connection == pg_get_db_connection(env)
        statements == pg_statements(query)
        executed == pg_execute(db, statements, Len(statements))
    IN  IF ~connection.connected
        THEN PgRun("raised", PgNone, db, <<>>, connection)
        ELSE IF env.execute = "error" \/ ~executed.ok
        THEN PgRun("raised", PgNone, db,
                   <<"execute", "rollback", "close">>, connection)
        ELSE IF fetch /\ ~executed.returns_rows
        THEN PgRun("raised", PgNone, db,
                   <<"execute", "fetchall", "rollback", "close">>, connection)
        ELSE IF env.commit = "error"
        THEN PgRun("raised", PgNone, db,
                   IF fetch
                   THEN <<"execute", "fetchall", "commit", "rollback", "close">>
                   ELSE <<"execute", "commit", "rollback", "close">>,
                   connection)
        ELSE PgRun("returned", IF fetch THEN PgRows(executed.rows) ELSE PgNone,
                   executed.db,
                   IF fetch THEN <<"execute", "fetchall", "commit", "close">>
                   ELSE <<"execute", "commit", "close">>,
                   connection)

NotExecuted(db) ==
    [outcome |-> "returned", result |-> PgError, db |-> db, events |-> <<>>,
     opened |-> 0, closed |-> 0]

\* db_tools.py CustomQueryTool.run: the query must start with SELECT; an
\* exception of execute_query becomes the error value
CustomQueryTool_run(db, query, env) ==
    IF ~str_startswith(str_upper(str_strip(query)), "SELECT")
    THEN NotExecuted(db)
    ELSE LET r == execute_query(db, query, TRUE, env)
         IN  IF r.outcome = "raised"
             THEN [r EXCEPT !.outcome = "returned", !.result = PgError]
             ELSE r

(* ---- src/app.py: the SQLite database ------------------------------------ *)

SqSchema ==
    [projects |-> {"id", "name"},
     tasks |-> {"id", "project_id", "name", "description", "status",
                "priority", "assigned_to", "due_date"}]

\* src/app.py execute_query: a new connection for every call, closed by the
\* context manager on every path; an sqlite3.Error of cursor.execute or
\* conn.commit becomes {"success": False}; an error of sqlite3.connect is
\* raised before the try block.  A statement that does not start with
\* SELECT is committed; the changes of any other are dropped at close
\* the statement SQLite makes of the text, and execute_query's test
\* query.strip().upper().startswith("SELECT")
sq_read_text(query) ==
    [statement |-> sql_parse(query),
     select |-> str_startswith(str_upper(str_strip(query)), "SELECT")]

INSERT_TASK ==
    "INSERT INTO tasks (project_id, name, description, status, priority, assigned_to, due_date) VALUES (?, ?, ?, ?, ?, ?, ?)"

SELECT_ROWID == "SELECT last_insert_rowid() as id"

SELECT_TASK == "SELECT * FROM tasks WHERE id = ?"

SqQueries ==
    {"SELECT * FROM projects", "  select * from tasks ", "SELEC * FROM projects",
     "SELECT * FROM nope", "DELETE FROM tasks", "delete from projects",
     "DROP TABLE tasks", "TRUNCATE TABLE tasks",
     "UPDATE projects SET name = NULL", "update tasks set status = NULL"}

\* update_task: the fields of the body that may be updated, in the order
\* of the loop
task_fields ==
    <<"name", "description", "status", "priority", "assigned_to", "due_date">>

SuppliedOrId(data) ==
    LET In(field) == field \in DOMAIN data
    IN  SelectSeq(<<"id">> \o task_fields, In)

Supplied(data) ==
    LET In(field) == field \in DOMAIN data
    IN  SelectSeq(task_fields, In)

\* f"UPDATE tasks SET {', '.join(update_fields)} WHERE id = ?"
update_task_query(fields) ==
    "UPDATE tasks SET "
    \o join(", ", [i \in 1..Len(fields) |-> fields[i] \o " = ?"])
    \o " WHERE id = ?"

\* bodies of PATCH /api/tasks/<id>
PatchBodies ==
    {EmptyDict, [project_id |-> 2], [status |-> "Done"],
     [name |-> "Frame", note |-> "x"],
     [id |-> 9, priority |-> "Low", status |-> "Done"]}

UpdateQueries ==
    {update_task_query(Supplied(data)) : data \in PatchBodies}

\* (the texts the routes send and their callers submit, read once)
SqReadTable ==
    [query \in SqQueries \cup {INSERT_TASK, SELECT_ROWID, SELECT_TASK}
                \cup UpdateQueries |->
        sq_read_text(query)]

sq_read(query) ==
    SqReadTable[query]

SqResult(outcome, result, db) ==
    [outcome |-> outcome, result |-> result, db |-> db]

sq_execute_query(db, query, params, env) ==
    LET r == sql_apply(db, SqSchema, sq_read(query).statement, params, 0)
    IN  IF env.connect # "ok"
        THEN SqResult("raised", [success |-> FALSE], db)
        ELSE IF env.execute = "error" \/ ~r.ok
        THEN SqResult("error", [success |-> FALSE, error |-> "sqlite3.Error"], db)
        ELSE IF sq_read(query).select
        THEN SqResult("ok", [success |-> TRUE, results |-> r.rows], db)
        ELSE IF env.commit = "error"
        THEN SqResult("error", [success |-> FALSE, error |-> "sqlite3.Error"], db)
        ELSE SqResult("ok", [success |-> TRUE, affected_rows |-> r.rowcount],
                      r.db)

\* the response of a route: status and JSON body, the database it leaves,
\* the execute_query calls it made (query and outcome) in order
SqRun(status, body, db, calls) ==
    LET connected == Cardinality({i \in 1..Len(calls) :
                                     calls[i].outcome # "raised"})
    IN  [outcome |-> "returned", status |-> status, result |-> body,
         sql |-> NoStatement, opened |-> connected, closed |-> connected,
         db |-> db, calls |-> calls]

SqCall(query, r) ==
    [query |-> query, outcome |-> r.outcome]

\* an exception that leaves a view function is Flask's 500 response
InternalServerError ==
    [error |-> "Internal Server Error"]

\* get_projects returns jsonify(result): status 200
sq_get_projects(db, env) ==
    LET query == "SELECT * FROM projects"
        r == sq_execute_query(db, query, <<>>, env)
    IN  IF r.outcome = "raised"
        THEN SqRun(500, InternalServerError, db, <<SqCall(query, r)>>)
        ELSE SqRun(200, r.result, r.db, <<SqCall(query, r)>>)

DestructiveKeywords == <<"DROP", "DELETE", "TRUNCATE">>

query_db(db, data, env) ==
    IF data = EmptyDict \/ "sql" \notin DOMAIN data
    THEN SqRun(400, [error |-> "SQL query is required"], db, <<>>)
    ELSE IF \E i \in 1..Len(DestructiveKeywords) :
                str_contains(str_upper(data.sql), DestructiveKeywords[i])
    THEN SqRun(403, [error |-> "Destructive operations not allowed in demo mode"],
               db, <<>>)
    ELSE LET r == sq_execute_query(db, data.sql, <<>>, env)
         IN  IF r.outcome = "raised"
             THEN SqRun(500, InternalServerError, db, <<SqCall(data.sql, r)>>)
             ELSE SqRun(200, r.result, r.db, <<SqCall(data.sql, r)>>)

required_fields ==
    <<"project_id", "name", "description", "status", "priority", "assigned_to",
      "due_date">>

\* add_task: the INSERT and the two lookups are three execute_query calls,
\* each on a connection of its own (env and lookup_env are what the driver
\* does in the first and in the later ones).  The results of the three
\* calls, each computed once: the lookups matter only after a successful
\* INSERT, and the second only after a successful first
add_task_calls(db, params, env, lookup_env) ==
    UNION {UNION {{<<inserted, rowid, task>> :
                      task \in {IF rowid.outcome = "ok"
                                THEN sq_execute_query(
                                         inserted.db, SELECT_TASK,
                                         <<(CHOOSE row \in rowid.result.results :
                                                TRUE).id>>,
                                         lookup_env)
                                ELSE rowid}} :
                  rowid \in {sq_execute_query(inserted.db, SELECT_ROWID, <<>>,
                                              lookup_env)}} :
           inserted \in {sq_execute_query(db, INSERT_TASK, params, env)}}

\* `["results"]` of a failed result raises KeyError, `[0]` of an empty one
\* IndexError
add_task_response(db, inserted, rowid, task) ==
    IF inserted.outcome = "raised"
    THEN SqRun(500, InternalServerError, db, <<SqCall(INSERT_TASK, inserted)>>)
    ELSE IF inserted.outcome = "error"
    THEN SqRun(500, [error |-> inserted.result.error], db,
               <<SqCall(INSERT_TASK, inserted)>>)
    ELSE IF rowid.outcome # "ok"
    THEN SqRun(500, InternalServerError, inserted.db,
               <<SqCall(INSERT_TASK, inserted), SqCall(SELECT_ROWID, rowid)>>)
    ELSE IF task.outcome # "ok" \/ task.result.results = {}
    THEN SqRun(500, InternalServerError, inserted.db,
               <<SqCall(INSERT_TASK, inserted), SqCall(SELECT_ROWID, rowid),
                 SqCall(SELECT_TASK, task)>>)
    ELSE SqRun(200,
               [success |-> TRUE,
                task |-> CHOOSE row \in task.result.results : TRUE],
               inserted.db,
               <<SqCall(INSERT_TASK, inserted), SqCall(SELECT_ROWID, rowid),
                 SqCall(SELECT_TASK, task)>>)

add_task(db, data, env, lookup_env) ==
    IF data = EmptyDict
    THEN SqRun(400, [error |-> "Task data is required"], db, <<>>)
    ELSE IF \E i \in 1..Len(required_fields) : required_fields[i] \notin DOMAIN data
    THEN SqRun(400, [error |-> "Field is required"], db, <<>>)
    ELSE LET params == [i \in 1..Len(required_fields) |-> data[required_fields[i]]]
         IN  CHOOSE response \in
                 {add_task_response(db, inserted, rowid, task) :
                     <<inserted, rowid, task>> \in
                         add_task_calls(db, params, env, lookup_env)} : TRUE

\* update_task: the UPDATE and, after it succeeded, the lookup of the row
\* (once for the test of the conditional expression, once more for its
\* value when the first found a row), each an execute_query call
update_task_calls(db, query, params, task_id, env, lookup_env) ==
    UNION {UNION {{<<updated, found, task>> :
                      task \in {IF found.outcome = "ok"
                                   /\ found.result.results # {}
                                THEN sq_execute_query(updated.db, SELECT_TASK,
                                                      <<task_id>>, lookup_env)
                                ELSE found}} :
                  found \in {sq_execute_query(updated.db, SELECT_TASK,
                                              <<task_id>>, lookup_env)}} :
           updated \in {sq_execute_query(db, query, params, env)}}

\* `["results"]` of a failed lookup raises KeyError
update_task_response(db, query, updated, found, task) ==
    IF updated.outcome = "raised"
    THEN SqRun(500, InternalServerError, db, <<SqCall(query, updated)>>)
    ELSE IF updated.outcome = "error"
    THEN SqRun(500, [error |-> updated.result.error], db,
               <<SqCall(query, updated)>>)
    ELSE IF found.outcome # "ok"
    THEN SqRun(500, InternalServerError, updated.db,
               <<SqCall(query, updated), SqCall(SELECT_TASK, found)>>)
    ELSE IF found.result.results = {}
    THEN SqRun(200, [success |-> TRUE, task |-> "None"], updated.db,
               <<SqCall(query, updated), SqCall(SELECT_TASK, found)>>)
    ELSE IF task.outcome # "ok" \/ task.result.results = {}
    THEN SqRun(500, InternalServerError, updated.db,
               <<SqCall(query, updated), SqCall(SELECT_TASK, found),
                 SqCall(SELECT_TASK, task)>>)
    ELSE SqRun(200,
               [success |-> TRUE,
                task |-> CHOOSE row \in task.result.results : TRUE],
               updated.db,
               <<SqCall(query, updated), SqCall(SELECT_TASK, found),
                 SqCall(SELECT_TASK, task)>>)

update_task(db, task_id, data, env, lookup_env) ==
    LET update_fields == Supplied(data)
        params == [i \in 1..Len(update_fields) |-> data[update_fields[i]]]
                  \o <<task_id>>
        query == update_task_query(update_fields)
    IN  IF data = EmptyDict
        THEN SqRun(400, [error |-> "Task update data is required"], db, <<>>)
        ELSE IF update_fields = <<>>
        THEN SqRun(400, [error |-> "No fields to update"], db, <<>>)
        ELSE CHOOSE response \in
                 {update_task_response(db, query, updated, found, task) :
                     <<updated, found, task>> \in
                         update_task_calls(db, query, params, task_id, env,
                                           lookup_env)} : TRUE

(* ---- portia_demo/flask_server/worker_ai.py: WorkerAI -------------------- *)

MaxSaved == 7

\* get_conversation_history(user_id, limit=10)
HistoryLimit == 10

\* for entry in history[-5:]
HistorySlice == 5

Exchange(user_id, role, user_message, ai_response, timestamp) ==
    [user_id |-> user_id, role |-> role, user_message |-> user_message,
     ai_response |-> ai_response, timestamp |-> timestamp]

\* save_conversation: one more row, stamped datetime.now(); an exception is
\* logged and the row is not saved
save_conversation(rows, role, user_id, user_message, ai_response, outcome) ==
    IF outcome = "error" THEN rows
    ELSE Append(rows, Exchange(user_id, role, user_message, ai_response,
                               Len(rows) + 1))

\* ORDER BY timestamp DESC (rows are kept in timestamp order)
order_by_timestamp_desc(rows) ==
    [i \in 1..Len(rows) |-> rows[Len(rows) + 1 - i]]

\* get_conversation_history: WHERE user_id = ? AND role = ? ORDER BY
\* timestamp DESC LIMIT ?; the empty list when the database fails
get_conversation_history(rows, role, user_id, limit, outcome) ==
    LET Mine(row) == row.user_id = user_id /\ row.role = role
        newest_first == order_by_timestamp_desc(SelectSeq(rows, Mine))
    IN  IF outcome = "error" THEN <<>>
        ELSE SubSeq(newest_first, 1,
                    IF Len(newest_first) < limit THEN Len(newest_first)
                    ELSE limit)

\* history[-n:]: the last n elements of the list
last_elements(history, n) ==
    SubSeq(history, IF Len(history) > n THEN Len(history) - n + 1 ELSE 1,
           Len(history))

Message(role, content) ==
    [role |-> role, content |-> content]

\* the messages array: system prompt, the history entries as user and
\* assistant messages, the current message
build_messages(included, message) ==
    <<Message("system", "role prompt")>>
    \o [i \in 1..(2 * Len(included)) |->
           IF i % 2 = 1
           THEN Message("user", included[(i + 1) \div 2].user_message)
           ELSE Message("assistant", included[i \div 2].ai_response)]
    \o <<Message("user", message)>>

\* process_message: what was sent to the LLM, whether the reply is an
\* error, and the table after save_conversation
process_message(rows, role, user_id, message, env) ==
    LET history == get_conversation_history(rows, role, user_id, HistoryLimit,
                                            env.read)
        included == last_elements(history, HistorySlice)
        messages == build_messages(included, message)
    IN  IF ~env.api_key
        THEN [error |-> TRUE, messages |-> <<>>, included |-> <<>>,
              history_read |-> FALSE, rows |-> rows]
        ELSE IF env.llm = "error"
        THEN [error |-> TRUE, messages |-> messages, included |-> included,
              history_read |-> env.read = "ok", rows |-> rows]
        ELSE [error |-> FALSE, messages |-> messages, included |-> included,
              history_read |-> env.read = "ok",
              rows |-> save_conversation(rows, role, user_id, message, env.reply,
                                         env.save)]

(* ---- worker_ai.py: dashboard layouts ------------------------------------ *)

MaxLayoutSaves == 3

\* a tile of a layout (its title and size are carried along unchanged)
Tile(id, priority) ==
    [id |-> id, priority |-> priority]

\* a layout that is JSON null
JsonNull ==
    [null |-> TRUE]

ByPriority(a, b) ==
    a.priority < b.priority

\* _create_default_dashboard_layout: the common tile, the tiles of the
\* role, the mail tile, sorted by priority
create_default_dashboard_layout(role) ==
    LET role_tiles ==
            CASE role = "ceo" ->
                    <<Tile("finances", 1), Tile("safety", 5), Tile("tasks", 8)>>
              [] role = "project-manager" ->
                    <<Tile("tasks", 1), Tile("materials", 3), Tile("timeline", 2)>>
              [] OTHER ->
                    <<Tile("tasks", 1), Tile("safety", 2), Tile("materials", 3)>>
    IN  [tiles |-> SortSeq(<<Tile("projects", 10)>> \o role_tiles
                           \o <<Tile("mail", 15)>>, ByPriority)]

Digits == <<"0", "1", "2", "3", "4", "5", "6", "7", "8", "9">>

json_int(n) ==
    IF n < 10 THEN Digits[n + 1]
    ELSE Digits[(n \div 10) + 1] \o Digits[(n % 10) + 1]

json_tile(tile) ==
    "{\"id\": \"" \o tile.id \o "\", \"priority\": " \o json_int(tile.priority)
    \o "}"

\* json.dumps(layout)
json_dumps(layout) ==
    IF layout = JsonNull THEN "null"
    ELSE "{\"tiles\": ["
         \o join(", ", [i \in 1..Len(layout.tiles) |-> json_tile(layout.tiles[i])])
         \o "]}"

\* the layouts of the requests and of the roles
AvailableRoles ==
    <<"ceo", "project-manager", "safety-officer", "equipment-manager", "worker",
      "engineer">>

RequestLayouts ==
    {JsonNull, [tiles |-> <<>>],
     [tiles |-> <<Tile("mail", 1), Tile("tasks", 12)>>]}

JsonLayouts ==
    RequestLayouts
    \cup {create_default_dashboard_layout(AvailableRoles[i]) :
              i \in 1..Len(AvailableRoles)}

\* json.loads(text): the value whose text this is
json_loads(text) ==
    CHOOSE layout \in JsonLayouts : json_dumps(layout) = text

Preference(user_id, role, dashboard_layout, last_updated) ==
    [user_id |-> user_id, role |-> role, dashboard_layout |-> dashboard_layout,
     visualization_preferences |-> "{}", theme |-> "light",
     last_updated |-> last_updated]

PreferencesOf(rows, role, user_id) ==
    {row \in rows : row.user_id = user_id /\ row.role = role}

save_dashboard_layout_insert_only(rows, role, user_id, layout, now, outcome) ==
    IF outcome = "error" THEN [saved |-> FALSE, rows |-> rows]
    ELSE IF PreferencesOf(rows, role, user_id) # {}
    THEN [saved |-> TRUE, rows |-> rows]
    ELSE [saved |-> TRUE,
          rows |-> rows \cup {Preference(user_id, role, json_dumps(layout), now)}]

\* save_dashboard_layout: UPDATE the row of (user_id, role) when there is
\* one, INSERT it otherwise; an exception rolls back and returns False
save_dashboard_layout(rows, role, user_id, layout, now, outcome) ==
    IF outcome = "error" THEN [saved |-> FALSE, rows |-> rows]
    ELSE IF PreferencesOf(rows, role, user_id) # {}
    THEN [saved |-> TRUE,
          rows |-> {IF row \in PreferencesOf(rows, role, user_id)
                    THEN [row EXCEPT !.dashboard_layout = json_dumps(layout),
                                     !.last_updated = now]
                    ELSE row : row \in rows}]
    ELSE [saved |-> TRUE,
          rows |-> rows \cup {Preference(user_id, role, json_dumps(layout), now)}]

\* get_dashboard_layout: the stored layout; without a row the default
\* layout, which it saves (the result of that save is not looked at); the
\* default layout, not saved, when reading fails
get_dashboard_layout(rows, role, user_id, now, env) ==
    LET found == PreferencesOf(rows, role, user_id)
        layout == create_default_dashboard_layout(role)
        save == save_dashboard_layout(rows, role, user_id, layout, now, env.save)
    IN  IF env.read = "error"
        THEN [layout |-> layout, read |-> FALSE, saved |-> FALSE, rows |-> rows]
        ELSE IF found # {}
        THEN [layout |-> json_loads((CHOOSE row \in found : TRUE).dashboard_layout),
              read |-> TRUE, saved |-> FALSE, rows |-> rows]
        ELSE [layout |-> layout, read |-> TRUE, saved |-> save.saved,
              rows |-> save.rows]

\* WorkerAIManager.get_worker: the worker of the role, the worker of the
\* role "worker" for a role that has none
get_worker(role) ==
    IF \E i \in 1..Len(AvailableRoles) : AvailableRoles[i] = role THEN role
    ELSE "worker"

\* a layout route: the status of its response, the layout it returns or
\* saves, the worker it used, whether it called save_dashboard_layout
LayoutRun(status, role, layout, read, called_save, saved, rows) ==
    [status |-> status, role |-> role, layout |-> layout, read |-> read,
     called_save |-> called_save, saved |-> saved, rows |-> rows]

\* GET /api/dashboard/layout
api_get_dashboard_layout(rows, args, now, env) ==
    LET user_id == IF "user_id" \in DOMAIN args THEN args.user_id ELSE ""
        role == get_worker(IF "role" \in DOMAIN args THEN args.role ELSE "worker")
        r == get_dashboard_layout(rows, role, user_id, now, env)
    IN  IF user_id = ""
        THEN LayoutRun(400, role, JsonNull, FALSE, FALSE, FALSE, rows)
        ELSE LayoutRun(200, role, r.layout, r.read,
                       r.read /\ PreferencesOf(rows, role, user_id) = {},
                       r.saved, r.rows)

\* POST /api/dashboard/layout
api_save_dashboard_layout(rows, data, now, env) ==
    LET role == get_worker(IF "role" \in DOMAIN data THEN data.role ELSE "worker")
        r == save_dashboard_layout(rows, role, data.user_id, data.layout, now,
                                   env.save)
    IN  IF data = EmptyDict \/ "layout" \notin DOMAIN data
           \/ "user_id" \notin DOMAIN data
        THEN LayoutRun(400, role, JsonNull, FALSE, FALSE, FALSE, rows)
        ELSE LayoutRun(IF r.saved THEN 200 ELSE 500, role, data.layout, FALSE,
                       TRUE, r.saved, r.rows)

(* ---- clean_conversation_db.py and clean_all_dynamic_data.py ------------- *)

CONSTRUCTION_DB == "portia_demo/construction_data.db"

SQL_DB == "portia_demo/sql_data.db"

\* PRAGMA table_info: the columns of the tables, in the order of their
\* CREATE TABLE statements
TableInfo ==
    [conversation_history |->
         <<"id", "user_id", "role", "user_message", "ai_response", "timestamp">>,
     user_preferences |->
         <<"user_id", "role", "dashboard_layout", "visualization_preferences",
           "theme", "last_updated">>,
     dashboard_items |->
         <<"id", "user_id", "role", "item_type", "priority", "config",
           "last_updated">>,
     equipment_maintenance_log |->
         <<"id", "equipment_id", "maintenance_date", "maintenance_type",
           "description", "performed_by", "cost">>,
     orders |-> <<"id", "customer_id", "order_date", "total_amount", "status">>,
     order_items |-> <<"id", "order_id", "product_id", "quantity", "price">>]

TableInfoEntry(name, time_col, id_col, keep_count) ==
    [name |-> name, time_col |-> time_col, id_col |-> id_col,
     keep_count |-> keep_count]

DYNAMIC_TABLES ==
    [db_path \in {CONSTRUCTION_DB, SQL_DB} |->
        IF db_path = CONSTRUCTION_DB
        THEN <<TableInfoEntry("conversation_history", "timestamp", "id", 10),
               TableInfoEntry("equipment_maintenance_log", "maintenance_date",
                              "id", 5),
               TableInfoEntry("user_preferences", "last_updated", "user_id", 3)>>
        ELSE <<TableInfoEntry("orders", "order_date", "id", 5)>>]

\* what a cleanup function did: the count it returns, the tables it
\* leaves, the DELETE and VACUUM statements it executed
CleanRun(returned, tables, statements, outcome) ==
    [returned |-> returned, tables |-> tables, statements |-> statements,
     outcome |-> outcome]

\* SELECT id_col FROM table ORDER BY order_col DESC LIMIT keep_count
latest_ids(rows, id_col, order_col, keep_count) ==
    {r[id_col] :
        r \in {r \in rows :
                  Cardinality({s \in rows : s[order_col] > r[order_col]})
                      < keep_count}}

delete_older_executing(tables, table_name, id_col, order_col, keep_count, dry_run, outcome) ==
    LET rows == tables[table_name]
        kept == {r \in rows :
                    r[id_col] \in latest_ids(rows, id_col, order_col, keep_count)}
    IN  IF Cardinality(rows) <= keep_count
        THEN CleanRun(0, tables, <<>>, "ok")
        ELSE CleanRun(Cardinality(rows \ kept),
                      [tables EXCEPT ![table_name] = kept], <<"DELETE">>, "ok")

\* the part the two scripts have in common: nothing to do with at most
\* keep_count rows; otherwise DELETE FROM table WHERE id_col NOT IN (the
\* latest ids), which a dry run only logs; an sqlite3.Error returns 0
delete_older(tables, table_name, id_col, order_col, keep_count, dry_run, outcome) ==
    LET rows == tables[table_name]
        kept == {r \in rows :
                    r[id_col] \in latest_ids(rows, id_col, order_col, keep_count)}
    IN  IF Cardinality(rows) <= keep_count
        THEN CleanRun(0, tables, <<>>, "ok")
        ELSE IF dry_run
        THEN CleanRun(Cardinality(rows) - keep_count, tables, <<>>, "ok")
        ELSE IF outcome = "error"
        THEN CleanRun(0, tables, <<"DELETE">>, "error")
        ELSE CleanRun(Cardinality(rows \ kept),
                      [tables EXCEPT ![table_name] = kept], <<"DELETE">>, "ok")

\* clean_all_dynamic_data.clean_table
clean_table(tables, table_info, dry_run, outcome) ==
    IF table_info.name \notin DOMAIN tables
    THEN CleanRun(0, tables, <<>>, "ok")
    ELSE delete_older(tables, table_info.name, table_info.id_col,
                      table_info.time_col, table_info.keep_count, dry_run,
                      outcome)

\* the tests on col["name"].lower(), made on the upper-cased name
IsTimeColumn(col) ==
    \/ str_contains(str_upper(col), "TIMESTAMP")
    \/ str_contains(str_upper(col), "DATE")
    \/ str_contains(str_upper(col), "TIME")

IsIdColumn(col) ==
    \/ str_upper(col) = "ID"
    \/ /\ Len(col) >= 3
       /\ SubSeq(str_upper(col), Len(col) - 2, Len(col)) = "_ID"

\* the loop over the columns assigns at every match: the last one stays
LastColumn(columns, at, otherwise) ==
    IF at = {} THEN otherwise
    ELSE columns[CHOOSE i \in at : \A j \in at : j <= i]

\* the timestamp column and the id column clean_conversations finds
ConversationColumns ==
    [name \in DOMAIN TableInfo |->
        LET columns == TableInfo[name]
        IN  [timestamp_col |->
                 LastColumn(columns,
                            {i \in 1..Len(columns) : IsTimeColumn(columns[i])},
                            "None"),
             id_col |->
                 LastColumn(columns,
                            {i \in 1..Len(columns) : IsIdColumn(columns[i])},
                            "rowid")]]

\* get_conversation_tables: a column with message, timestamp or user in
\* its name, or a table with conversation in its name
LooksLikeConversation(name) ==
    \/ \E i \in 1..Len(TableInfo[name]) :
           \/ str_contains(str_upper(TableInfo[name][i]), "MESSAGE")
           \/ str_contains(str_upper(TableInfo[name][i]), "TIMESTAMP")
           \/ str_contains(str_upper(TableInfo[name][i]), "USER")
    \/ str_contains(str_upper(name), "CONVERSATION")

ConversationTables ==
    {name \in DOMAIN TableInfo : LooksLikeConversation(name)}

get_conversation_tables(tables) ==
    DOMAIN tables \cap ConversationTables

\* clean_conversation_db.clean_conversations: ordered by the id column
\* when no timestamp column was found
clean_conversations(tables, table_name, keep_count, dry_run, outcome) ==
    LET found == ConversationColumns[table_name]
    IN  delete_older(tables, table_name, found.id_col,
                     IF found.timestamp_col = "None" THEN found.id_col
                     ELSE found.timestamp_col,
                     keep_count, dry_run, outcome)

\* clean_related_items: the order_items whose order is gone
clean_related_items(tables, dry_run, outcome) ==
    LET remaining_orders == {row.id : row \in tables.orders}
        orphans == {row \in tables.order_items :
                       row.order_id \notin remaining_orders}
    IN  IF "order_items" \notin DOMAIN tables \/ "orders" \notin DOMAIN tables
        THEN CleanRun(0, tables, <<>>, "ok")
        ELSE IF remaining_orders = {} \/ orphans = {}
        THEN CleanRun(0, tables, <<>>, "ok")
        ELSE IF dry_run
        THEN CleanRun(Cardinality(orphans), tables, <<>>, "ok")
        ELSE IF outcome = "error"
        THEN CleanRun(0, tables, <<"DELETE">>, "error")
        ELSE CleanRun(Cardinality(orphans),
                      [tables EXCEPT !.order_items = @ \ orphans],
                      <<"DELETE">>, "ok")

\* delete_empty_preferences: VACUUM when dashboard_items is empty
delete_empty_preferences(tables, dry_run, outcome) ==
    IF "dashboard_items" \notin DOMAIN tables \/ tables.dashboard_items # {}
       \/ dry_run
    THEN CleanRun(0, tables, <<>>, "ok")
    ELSE CleanRun(0, tables, <<"VACUUM">>, outcome)

\* the handler is a function of the request alone: its responses, tabulated
ResponseTable ==
    [request \in Requests |-> Responses(request)]

(* ---- state: the two most recent exchanges with the server -------------- *)

NoExchange ==
    [handled |-> FALSE,
     request |-> [has_json |-> FALSE, data |-> EmptyObject],
     response |-> ErrorResponse(0)]

NoServerExchange ==
    [handled |-> FALSE, endpoint |-> "none", args |-> EmptyDict,
     response |-> [status |-> 0, body |-> "None"]]

DashboardInit ==
    /\ prev = NoExchange
    /\ last = NoExchange

ServerInit ==
    /\ worker_agents = EmptyDict
    /\ design_decisions = EmptyDict
    /\ assign_requests = 0
    /\ srv_last = NoServerExchange
    /\ assign_log = <<>>

\* init_db.py of the SQLite demo: the tables with their sample rows
SqSeededDatabase ==
    [projects |-> {[id |-> 1, name |-> "Tower"]},
     tasks |-> {}]

NoDbExchange ==
    [handled |-> FALSE, handler |-> "none", args |-> EmptyDict,
     run |-> Run("none", 0, {}, NoStatement, 0, 0)]

DbInit ==
    /\ pg_db = SeededDatabase
    /\ sq_db = SqSeededDatabase
    /\ open_connections = 0
    /\ db_last = NoDbExchange

NoLayoutExchange ==
    [handled |-> FALSE]

PrefInit ==
    /\ user_preferences = {}
    /\ pref_clock = 0
    /\ layout_last = NoLayoutExchange
    /\ saved_layouts = EmptyDict

\* database files as the applications and data scripts leave them (the
\* columns of a row that the cleanup statements name; the timestamps of a
\* table are distinct)
ConversationRows(n, users) ==
    {[id |-> i, user_id |-> users[((i - 1) % Len(users)) + 1], role |-> "ceo",
      timestamp |-> i] : i \in 1..n}

PreferenceRows(keys) ==
    {[user_id |-> keys[i][1], role |-> keys[i][2], last_updated |-> i] :
        i \in 1..Len(keys)}

ItemRows(n) ==
    {[id |-> i, user_id |-> "u1", role |-> "ceo", last_updated |-> i] : i \in 1..n}

MaintenanceRows(n) ==
    {[id |-> i, equipment_id |-> (i % 2) + 1, maintenance_date |-> n + 1 - i] :
        i \in 1..n}

OrderRows(n) ==
    {[id |-> i, customer_id |-> (i % 3) + 1, order_date |-> i] : i \in 1..n}

OrderItemRows(n) ==
    {[id |-> i, order_id |-> ((i - 1) % 7) + 1, product_id |-> 1] : i \in 1..n}

ConversationSeeds ==
    {ConversationRows(2, <<"u1">>), ConversationRows(11, <<"u1">>),
     ConversationRows(12, <<"u2", "u1", "u1", "u1", "u1", "u1", "u1", "u1", "u1",
                             "u1", "u1", "u1">>)}

PreferenceSeeds ==
    {PreferenceRows(<<<<"u1", "ceo">>, <<"u2", "ceo">>>>),
     PreferenceRows(<<<<"u1", "ceo">>, <<"u1", "worker">>, <<"u1", "engineer">>,
                      <<"u1", "project-manager">>>>),
     PreferenceRows(<<<<"u1", "ceo">>, <<"u2", "ceo">>, <<"u3", "worker">>,
                      <<"u4", "worker">>, <<"u5", "engineer">>>>)}

ConstructionDatabases ==
    {[conversation_history |-> c, user_preferences |-> p, dashboard_items |-> d,
      equipment_maintenance_log |-> m] :
        c \in ConversationSeeds, p \in PreferenceSeeds,
        d \in {ItemRows(0), ItemRows(2)},
        m \in {MaintenanceRows(5), MaintenanceRows(7)}}
    \cup {[conversation_history |-> c, user_preferences |-> PreferenceRows(<<>>)] :
              c \in ConversationSeeds}

SqlDatabases ==
    {[orders |-> OrderRows(5), order_items |-> OrderItemRows(5)],
     [orders |-> OrderRows(7), order_items |-> OrderItemRows(9)],
     [orders |-> OrderRows(6)]}

CleanDatabases ==
    {[db_path \in {CONSTRUCTION_DB, SQL_DB} |->
         IF db_path = CONSTRUCTION_DB THEN c ELSE s] :
        c \in ConstructionDatabases, s \in SqlDatabases}

NoCleanExchange ==
    [handled |-> FALSE]

\* one of the database files
CleanInit ==
    /\ clean_db = [db_path \in {CONSTRUCTION_DB, SQL_DB} |->
                      IF db_path = CONSTRUCTION_DB
                      THEN [conversation_history |-> ConversationRows(11, <<"u1">>),
                            user_preferences |-> PreferenceRows(<<>>)]
                      ELSE [orders |-> OrderRows(6)]]
    /\ clean_last = NoCleanExchange

NoWorkerExchange ==
    [handled |-> FALSE, role |-> "none", user_id |-> "none", saved_before |-> 0,
     history_read |-> FALSE, included |-> <<>>, messages |-> <<>>,
     error |-> FALSE]

WorkerInit ==
    /\ conversation_history = <<>>
    /\ wa_last = NoWorkerExchange

Init ==
    /\ DashboardInit
    /\ ServerInit
    /\ DbInit
    /\ WorkerInit
    /\ PrefInit
    /\ CleanInit

\* a handler that shows only the tiles that have a worker
DashboardConfigAssignedOnly(request) ==
    /\ \E response \in ResponseTable[request] :
           last' = [handled |-> TRUE, request |-> request,
                    response |->
                        IF worker_agents = EmptyDict
                        THEN response
                        ELSE [response EXCEPT !.tile_configuration =
                                 SelectSeq(response.tile_configuration,
                                     LAMBDA d : d.tile_id \in DOMAIN worker_agents)]]
    /\ prev' = last
    /\ UNCHANGED <<server_vars, db_vars, wa_vars, pref_vars, clean_vars>>

DashboardConfig(request) ==
    /\ \E response \in ResponseTable[request] :
           last' = [handled |-> TRUE, request |-> request, response |-> response]
    /\ prev' = last
    /\ UNCHANGED <<server_vars, db_vars, wa_vars, pref_vars, clean_vars>>

Next ==
    \E request \in Requests : DashboardConfig(request)

Spec == Init /\ [][Next]_vars

(* ---- the other endpoints of the dashboard server ------------------------ *)

ServerExchange(endpoint, args, response) ==
    [handled |-> TRUE, endpoint |-> endpoint, args |-> args,
     response |-> response]

DesignLayout(role_type, layout) ==
    /\ design_decisions' = design_layout_store(design_decisions, role_type, layout)
    /\ srv_last' = ServerExchange("design_layout", [role_type |-> role_type],
                       design_layout_response(layout))
    /\ UNCHANGED <<worker_agents, assign_requests, assign_log, dashboard_vars,
                   db_vars, wa_vars, pref_vars, clean_vars>>

AssignWorkers(worker_tasks) ==
    /\ assign_requests < MaxAssign
    /\ assign_requests' = assign_requests + 1
    /\ worker_agents' = assign_workers_registry(worker_agents, worker_tasks,
                                                assign_requests + 1)
    /\ srv_last' = ServerExchange("assign_workers",
                       [tiles |-> DOMAIN worker_tasks],
                       assign_workers_response(worker_tasks))
    /\ assign_log' = Append(assign_log, worker_tasks)
    /\ UNCHANGED <<design_decisions, dashboard_vars, db_vars, wa_vars, pref_vars, clean_vars>>

GenerateVisualizations(style, code) ==
    /\ worker_agents' = generate_visualizations_registry(worker_agents, code)
    /\ srv_last' = ServerExchange("generate_visualizations", [style |-> style],
                       generate_visualizations_response(worker_agents, code, style))
    /\ UNCHANGED <<design_decisions, assign_requests, assign_log, dashboard_vars,
                   db_vars, wa_vars, pref_vars, clean_vars>>

UpdateVisualization(tile_id, style, code) ==
    /\ worker_agents' = update_visualization_registry(worker_agents, tile_id, code)
    /\ srv_last' = ServerExchange("update_visualization",
                       [tile_id |-> tile_id, style |-> style],
                       update_visualization_response(worker_agents, tile_id,
                                                     code, style))
    /\ UNCHANGED <<design_decisions, assign_requests, assign_log, dashboard_vars,
                   db_vars, wa_vars, pref_vars, clean_vars>>

\* the dashboard-config requests issued between the other requests
ServerRequests ==
    {[has_json |-> TRUE, data |-> EmptyObject],
     [has_json |-> TRUE, data |-> [role |-> JStr(STR_CEO)]],
     [has_json |-> TRUE,
      data |-> [role |-> JStr(STR_foreman),
                visualization_preference |-> JStr(PREF_technical)]]}

ServerNext ==
    \/ \E request \in ServerRequests : DashboardConfig(request)
    \/ \E role_type \in RoleTypes, layout \in Layouts :
           DesignLayout(role_type, layout)
    \/ \E tiles \in SUBSET LayoutTiles :
           \E worker_tasks \in [tiles -> WorkerTasks] :
               AssignWorkers(worker_tasks)
    \/ \E style \in VisualizationStyles, code \in Codes :
           GenerateVisualizations(style, code)
    \/ \E tile_id \in LayoutTiles \cup {"None"},
          style \in VisualizationStyles, code \in Codes :
           UpdateVisualization(tile_id, style, code)

ServerSpec == Init /\ [][ServerNext]_vars

(* ---- the database handlers ---------------------------------------------- *)

DbExchange(handler, args, run) ==
    [handled |-> TRUE, handler |-> handler, args |-> args, run |-> run]

\* a read-only handler: the databases keep their contents
ReadHandler(handler, args, run) ==
    /\ open_connections < MaxOpenConnections
    /\ db_last' = DbExchange(handler, args, run)
    /\ open_connections' = open_connections + run.opened - run.closed
    /\ UNCHANGED <<pg_db, sq_db, dashboard_vars, server_vars, wa_vars, pref_vars, clean_vars>>

GetData(table_name, env) ==
    ReadHandler("get_data", [table_name |-> table_name],
                get_data(pg_db, table_name, env))

DbGetProjects(filters, env) ==
    ReadHandler("db_utils.get_projects", filters,
                db_get_projects(pg_db, filters, env))

DbGetTasks(filters, env) ==
    ReadHandler("db_utils.get_tasks", filters,
                db_get_tasks(pg_db, filters, env))

TasksToolRun(args, env) ==
    ReadHandler("TasksTool.run", args, TasksTool_run(pg_db, args, env))

SqGetProjects(env) ==
    ReadHandler("app.get_projects", EmptyDict, sq_get_projects(sq_db, env))

\* a handler of the SQLite application: the database is what it leaves
SqHandler(handler, args, run) ==
    /\ db_last' = [handled |-> TRUE, handler |-> handler, args |-> args,
                   run |-> run, before |-> sq_db]
    /\ sq_db' = run.db
    /\ UNCHANGED <<pg_db, open_connections, dashboard_vars, server_vars, wa_vars, pref_vars, clean_vars>>

QueryDb(data, env) ==
    SqHandler("app.query_db", data, query_db(sq_db, data, env))

MaxTasks == 2

AddTask(data, env, lookup_env) ==
    /\ Cardinality(sq_db.tasks) < MaxTasks
    /\ SqHandler("app.add_task", data, add_task(sq_db, data, env, lookup_env))

UpdateTask(task_id, data, env, lookup_env) ==
    SqHandler("app.update_task", [task_id |-> task_id, data |-> data],
              update_task(sq_db, task_id, data, env, lookup_env))

\* a caller of db_utils.execute_query, or the query tool
PgHandler(handler, args, run) ==
    /\ open_connections < MaxOpenConnections
    /\ db_last' = [handled |-> TRUE, handler |-> handler, args |-> args,
                   run |-> run, before |-> pg_db]
    /\ pg_db' = run.db
    /\ open_connections' = open_connections + run.opened - run.closed
    /\ UNCHANGED <<sq_db, dashboard_vars, server_vars, wa_vars, pref_vars, clean_vars>>

ExecuteQuery(query, fetch, env) ==
    PgHandler("db_utils.execute_query", [query |-> query, fetch |-> fetch],
              execute_query(pg_db, query, fetch, env))

CustomQueryToolRun(query, env) ==
    PgHandler("CustomQueryTool.run", [query |-> query],
              CustomQueryTool_run(pg_db, query, env))

ProcessMessage(role, user_id, message, env) ==
    /\ Len(conversation_history) < MaxSaved
    /\ LET r == process_message(conversation_history, role, user_id, message, env)
       IN  /\ conversation_history' = r.rows
           /\ wa_last' = [handled |-> TRUE, role |-> role, user_id |-> user_id,
                          saved_before |-> Len(conversation_history),
                          history_read |-> r.history_read,
                          included |-> r.included, messages |-> r.messages,
                          error |-> r.error]
    /\ UNCHANGED <<dashboard_vars, server_vars, db_vars, pref_vars, clean_vars>>

\* a request of a layout route; datetime.now() is read by every call of
\* save_dashboard_layout
LayoutHandler(route, request, run) ==
    /\ run.called_save => pref_clock < MaxLayoutSaves
    /\ layout_last' = [handled |-> TRUE, route |-> route,
                       user_id |-> IF "user_id" \in DOMAIN request
                                   THEN request.user_id ELSE "",
                       run |-> run, saved_before |-> saved_layouts]
    /\ user_preferences' = run.rows
    /\ pref_clock' = IF run.called_save THEN pref_clock + 1 ELSE pref_clock
    /\ saved_layouts' =
           IF run.saved
           THEN [key \in DOMAIN saved_layouts \cup {<<request.user_id, run.role>>} |->
                    IF key = <<request.user_id, run.role>> THEN run.layout
                    ELSE saved_layouts[key]]
           ELSE saved_layouts
    /\ UNCHANGED <<dashboard_vars, server_vars, db_vars, wa_vars, clean_vars>>

ApiGetDashboardLayout(args, env) ==
    LayoutHandler("get", args,
                  api_get_dashboard_layout(user_preferences, args,
                                           pref_clock + 1, env))

ApiSaveDashboardLayout(data, env) ==
    LayoutHandler("save", data,
                  api_save_dashboard_layout(user_preferences, data,
                                            pref_clock + 1, env))

\* inputs
LayoutUsers == {"u1", "u2"}

LayoutEnvironments ==
    [read : CallOutcomes, save : CallOutcomes]

GetArgs ==
    {EmptyDict, [role |-> "ceo"]}
    \cup {[user_id |-> u] : u \in LayoutUsers}
    \cup {[user_id |-> u, role |-> role] : u \in LayoutUsers,
                                          role \in {"ceo", "intern"}}

SaveBodies ==
    {EmptyDict, [user_id |-> "u1"], [layout |-> JsonNull]}
    \cup {[user_id |-> u, layout |-> layout] :
              u \in LayoutUsers, layout \in RequestLayouts}
    \cup {[user_id |-> "u1", layout |-> layout, role |-> role] :
              layout \in RequestLayouts, role \in {"ceo", "intern"}}

LayoutNext ==
    \/ \E args \in GetArgs, env \in LayoutEnvironments :
           ApiGetDashboardLayout(args, env)
    \/ \E data \in SaveBodies, env \in LayoutEnvironments :
           ApiSaveDashboardLayout(data, env)

LayoutSpec == Init /\ [][LayoutNext]_vars

\* a call of a function of the cleanup scripts on an open database file
CleanHandler(function, db_path, args, dry_run, run) ==
    /\ clean_last' = [handled |-> TRUE, function |-> function,
                      db_path |-> db_path, args |-> args, dry_run |-> dry_run,
                      run |-> run, before |-> clean_db]
    /\ clean_db' = [clean_db EXCEPT ![db_path] = run.tables]
    /\ UNCHANGED <<dashboard_vars, server_vars, db_vars, wa_vars, pref_vars>>

CleanTable(db_path, table_info, dry_run, outcome) ==
    CleanHandler("clean_table", db_path, table_info, dry_run,
                 clean_table(clean_db[db_path], table_info, dry_run, outcome))

\* main cleans the tables get_conversation_tables found
CleanConversations(db_path, table_name, keep_count, dry_run, outcome) ==
    /\ table_name \in get_conversation_tables(clean_db[db_path])
    /\ CleanHandler("clean_conversations", db_path,
                    [name |-> table_name, keep_count |-> keep_count], dry_run,
                    clean_conversations(clean_db[db_path], table_name,
                                        keep_count, dry_run, outcome))

CleanRelatedItems(dry_run, outcome) ==
    CleanHandler("clean_related_items", SQL_DB, EmptyDict, dry_run,
                 clean_related_items(clean_db[SQL_DB], dry_run, outcome))

DeleteEmptyPreferences(dry_run, outcome) ==
    CleanHandler("delete_empty_preferences", CONSTRUCTION_DB, EmptyDict, dry_run,
                 delete_empty_preferences(clean_db[CONSTRUCTION_DB], dry_run,
                                          outcome))

\* inputs
KeepCounts == {2, 10}

CleanNext ==
    \/ \E db_path \in DOMAIN DYNAMIC_TABLES, dry_run \in BOOLEAN,
          outcome \in CallOutcomes :
           \E i \in 1..Len(DYNAMIC_TABLES[db_path]) :
               CleanTable(db_path, DYNAMIC_TABLES[db_path][i], dry_run, outcome)
    \/ \E db_path \in DOMAIN DYNAMIC_TABLES, table_name \in DOMAIN TableInfo,
          keep_count \in KeepCounts, dry_run \in BOOLEAN,
          outcome \in CallOutcomes :
           CleanConversations(db_path, table_name, keep_count, dry_run, outcome)
    \/ \E dry_run \in BOOLEAN, outcome \in CallOutcomes :
           CleanRelatedItems(dry_run, outcome)
    \/ \E dry_run \in BOOLEAN, outcome \in CallOutcomes :
           DeleteEmptyPreferences(dry_run, outcome)

\* the scripts run on any of the database files
CleanSeeded ==
    /\ DashboardInit
    /\ ServerInit
    /\ DbInit
    /\ WorkerInit
    /\ PrefInit
    /\ clean_db \in CleanDatabases
    /\ clean_last = NoCleanExchange

CleanSpec == CleanSeeded /\ [][CleanNext]_vars

\* inputs
Speakers ==
    {<<"ceo", "u1">>, <<"ceo", "u2">>, <<"engineer", "u1">>}

WorkerEnvironments ==
    [api_key : BOOLEAN, read : CallOutcomes, llm : CallOutcomes,
     save : CallOutcomes, reply : {"on track"}]

WorkerNext ==
    \E speaker \in Speakers, env \in WorkerEnvironments :
        ProcessMessage(speaker[1], speaker[2], "status?", env)

WorkerSpec == Init /\ [][WorkerNext]_vars

\* inputs
ReadEnvironments == {env \in Environments : env.commit = "ok"}

SqEnvironments ==
    {env \in Environments : env.connect \in {"ok", "error"}}

TableNames == {"projects", "tasks", "nope"}

FilterValue(column) ==
    CASE column = "project_id" -> "1"
      [] column = "status" -> "In Progress"
      [] column = "assigned_to" -> "crew"
      [] column = "priority" -> "High"
      [] column = "location" -> "Harbor"
      [] OTHER -> "x"

\* dicts over some of the keys, each key with its value
FilterDicts(keys) ==
    {[k \in s |-> FilterValue(k)] : s \in SUBSET keys}

\* arguments of a tool: None (absent), the empty string or a value
ToolArguments(keys) ==
    UNION {[s -> {"", "v"}] : s \in SUBSET keys}

ToolArgs(keys) ==
    {[k \in DOMAIN f |-> IF f[k] = "" THEN "" ELSE FilterValue(k)] :
        f \in ToolArguments(keys)}

ConnNext ==
    \/ \E table_name \in TableNames, env \in ReadEnvironments :
           GetData(table_name, env)
    \/ \E filters \in FilterDicts({"status", "location", "manager", "client"}),
          env \in ReadEnvironments :
           DbGetProjects(filters, env)
    \/ \E env \in SqEnvironments : SqGetProjects(env)

ConnSpec == Init /\ [][ConnNext]_vars

QueryBodies ==
    {EmptyDict, [params |-> <<>>]} \cup {[sql |-> query] : query \in SqQueries}

TaskNames == {"Pour", "Frame"}

TaskBody(name) ==
    [project_id |-> 1, name |-> name, description |-> "slab", status |-> "Open",
     priority |-> "High", assigned_to |-> "crew", due_date |-> "2025-06-01"]

TaskBodies ==
    {EmptyDict, [project_id |-> 1, name |-> "Pour"]}
    \cup {TaskBody(name) : name \in TaskNames}

\* (the lookups of add_task are SELECT statements: nothing to commit)
LookupEnvironments ==
    {env \in SqEnvironments : env.commit = "ok"}

SqNext ==
    \/ \E env \in SqEnvironments : SqGetProjects(env)
    \/ \E data \in QueryBodies, env \in SqEnvironments : QueryDb(data, env)
    \/ \E data \in TaskBodies, env \in SqEnvironments,
          lookup_env \in LookupEnvironments :
           AddTask(data, env, lookup_env)

SqSpec == Init /\ [][SqNext]_vars

TaskIds == {1, 2, 3}

TaskNext ==
    \/ \E name \in TaskNames, env \in SqEnvironments,
          lookup_env \in LookupEnvironments :
           AddTask(TaskBody(name), env, lookup_env)
    \/ \E task_id \in TaskIds, data \in PatchBodies, env \in SqEnvironments,
          lookup_env \in LookupEnvironments :
           UpdateTask(task_id, data, env, lookup_env)

TaskSpec == Init /\ [][TaskNext]_vars

PgQueries ==
    {"SELECT * FROM projects", "  select * from tasks", "SELECT * FROM nope",
     "SELECT 1", "DELETE FROM tasks", "SELECT 1; DELETE FROM tasks",
     "SELECT 1; DELETE FROM tasks; SELECT 1"}

QueryEnvironments ==
    {env \in Environments : env.connect \in {"ok", "error", "create_fails"}}

QueryNext ==
    \/ \E query \in PgQueries, fetch \in BOOLEAN, env \in QueryEnvironments :
           ExecuteQuery(query, fetch, env)
    \/ \E query \in PgQueries, env \in QueryEnvironments :
           CustomQueryToolRun(query, env)

QuerySpec == Init /\ [][QueryNext]_vars

FilterEnvironments ==
    {env \in ReadEnvironments : env.connect \in {"ok", "error"}}

FilterNext ==
    \/ \E filters \in FilterDicts({"status", "location", "manager", "client"}),
          env \in FilterEnvironments :
           DbGetProjects(filters, env)
    \/ \E filters \in FilterDicts({"project_id", "status", "assigned_to",
                                   "priority", "name"}),
          env \in FilterEnvironments :
           DbGetTasks(filters, env)
    \/ \E args \in ToolArgs({"project_id", "status", "assigned_to", "priority"}),
          env \in FilterEnvironments :
           TasksToolRun(args, env)

FilterSpec == Init /\ [][FilterNext]_vars

(* ======================================================================== *)
(* Properties                                                               *)
(* ======================================================================== *)

Exchanges == {prev, last}

OrderedPairs == {<<prev, last>>, <<last, prev>>}

Answered(e) == e.handled /\ e.response.status = 200

Tiles(e) == e.response.tile_configuration

HasRole(e) == "role" \in DOMAIN e.request.data

HasPreference(e) == "visualization_preference" \in DOMAIN e.request.data

RoleIs(e, s) == HasRole(e) /\ e.request.data.role = JStr(s)

PreferenceIs(e, s) ==
    HasPreference(e) /\ e.request.data.visualization_preference = JStr(s)

StringRole(e) == HasRole(e) /\ e.request.data.role.kind = "str"

StringPreference(e) ==
    HasPreference(e) /\ e.request.data.visualization_preference.kind = "str"

SameRole(a, b) ==
    \/ ~HasRole(a) /\ ~HasRole(b)
    \/ HasRole(a) /\ HasRole(b) /\ a.request.data.role = b.request.data.role

SamePreference(a, b) ==
    \/ ~HasPreference(a) /\ ~HasPreference(b)
    \/ /\ HasPreference(a)
       /\ HasPreference(b)
       /\ a.request.data.visualization_preference
              = b.request.data.visualization_preference

KnownRoles ==
    {ROLE_project_manager, ROLE_ceo, ROLE_site_supervisor,
     ROLE_safety_officer, ROLE_construction_worker, ROLE_inventory_manager}

KnownPreferences == {PREF_technical, PREF_balanced, PREF_non_technical}

\* lower case, every space an underscore
NormalForm(s) ==
    [i \in 1..Len(s) |->
        IF s[i] = " " THEN "_"
        ELSE IF \E k \in 1..26 : UpperChars[k] = s[i]
             THEN LowerChars[CHOOSE k \in 1..26 : UpperChars[k] = s[i]]
             ELSE s[i]]

\* the role's priority mapping a response is built from
SourceTable(role) ==
    IF role \in KnownRoles
    THEN role_priorities[role]
    ELSE role_priorities[ROLE_project_manager]

\* the format table a response is built from
SourceFormats(pref) ==
    IF pref.kind = "str" /\ pref.val \in KnownPreferences
    THEN visualization_formats[pref.val]
    ELSE visualization_formats[PREF_balanced]

Position(seq, tile) == CHOOSE i \in 1..Len(seq) : seq[i].tile_id = tile

Before(seq, t1, t2) ==
    /\ \E i \in 1..Len(seq) : seq[i].tile_id = t1
    /\ \E i \in 1..Len(seq) : seq[i].tile_id = t2
    /\ Position(seq, t1) < Position(seq, t2)

SortedByPriority(seq) ==
    \A i, j \in 1..Len(seq) : i < j => seq[i].priority <= seq[j].priority

(* C1: for a request whose role is one of the six known roles, whatever the *)
(* preference, the tile_configuration that is returned is non-empty and in  *)
(* non-decreasing order of priority (and it is returned whenever the        *)
(* preference is absent or a string).                                       *)
C1_SortedNonEmpty ==
    \A e \in Exchanges :
        (e.handled /\ HasRole(e) /\ e.request.data.role.kind = "str"
            /\ e.request.data.role.val \in KnownRoles)
        => /\ (~HasPreference(e) \/ StringPreference(e)) => Answered(e)
           /\ Answered(e) => /\ Len(Tiles(e)) > 0
                             /\ SortedByPriority(Tiles(e))

\* inventory_manager lists team_members (9) before task_progress (8)
C1_Witness ==
    /\ Answered(last)
    /\ RoleIs(last, ROLE_inventory_manager)
    /\ PreferenceIs(last, STR_fancy)
    /\ Before(Tiles(last), "task_progress", "team_members")

(* C2: the sort is stable: two tiles of the resolved role with the same     *)
(* priority appear in the output in their order in that role's priority     *)
(* mapping; for project_manager, team_members is before project_timeline    *)
(* and progress_tracking before safety_incidents.                           *)
C2_StableSort ==
    \A e \in Exchanges :
        Answered(e)
        => LET out == Tiles(e)
               src == SourceTable(e.response.role)
           IN  /\ \A i, j \in 1..Len(out) :
                     (i < j /\ out[i].priority = out[j].priority)
                     => Before(src, out[i].tile_id, out[j].tile_id)
               /\ e.response.role = ROLE_project_manager
                  => /\ Before(out, "team_members", "project_timeline")
                     /\ Before(out, "progress_tracking", "safety_incidents")

C2_Witness ==
    /\ Answered(last)
    /\ last.response.role = ROLE_project_manager
    /\ \E i \in 1..(Len(Tiles(last)) - 1) :
           /\ Tiles(last)[i].tile_id = "progress_tracking"
           /\ Tiles(last)[i + 1].tile_id = "safety_incidents"
           /\ Tiles(last)[i].priority = Tiles(last)[i + 1].priority

(* C3 as stated: for a role string that normalizes to no key of the role    *)
(* table, the response equals the response for role "project_manager" with  *)
(* the same preference.                                                     *)
UnknownRole(e) ==
    StringRole(e) /\ NormalForm(e.request.data.role.val) \notin KnownRoles

C3_Original ==
    \A p \in OrderedPairs :
        LET a == p[1]
            b == p[2]
        IN  (a.handled /\ b.handled /\ UnknownRole(a)
                /\ RoleIs(b, ROLE_project_manager) /\ SamePreference(a, b))
            => a.response = b.response

(* C3 amended: for a role string that normalizes to no key of the role      *)
(* table, the response has the tile_configuration and the                   *)
(* visualization_preference of the response for role "project_manager" with *)
(* the same preference; its role field is the normalized request role, not  *)
(* "project_manager".                                                       *)
C3_FallbackTiles ==
    \A p \in OrderedPairs :
        LET a == p[1]
            b == p[2]
        IN  (a.handled /\ b.handled /\ UnknownRole(a)
                /\ RoleIs(b, ROLE_project_manager) /\ SamePreference(a, b))
            => /\ a.response.status = b.response.status
               /\ Tiles(a) = Tiles(b)
               /\ a.response.visualization_preference
                      = b.response.visualization_preference
               /\ Answered(a)
                  => /\ a.response.role = NormalForm(a.request.data.role.val)
                     /\ a.response.role # b.response.role

C3_Witness ==
    /\ Answered(prev)
    /\ Answered(last)
    /\ RoleIs(prev, STR_foreman)
    /\ RoleIs(last, ROLE_project_manager)
    /\ PreferenceIs(prev, PREF_technical)
    /\ PreferenceIs(last, PREF_technical)
    /\ Tiles(prev) = Tiles(last)
    /\ Len(Tiles(prev)) = 9

(* C4 as stated: for a preference string other than "technical",            *)
(* "balanced" and "non_technical", the response equals the response for the *)
(* same role with preference "balanced".                                    *)
UnknownPreference(e) ==
    /\ StringPreference(e)
    /\ e.request.data.visualization_preference.val \notin KnownPreferences

C4_Original ==
    \A p \in OrderedPairs :
        LET a == p[1]
            b == p[2]
        IN  (a.handled /\ b.handled /\ UnknownPreference(a)
                /\ PreferenceIs(b, PREF_balanced) /\ SameRole(a, b))
            => a.response = b.response

(* C4 amended: for a preference string other than the three known ones, the *)
(* response has the role and the tile_configuration of the response for the *)
(* same role with preference "balanced"; its visualization_preference field *)
(* is the request's string, not "balanced".                                 *)
C4_FallbackFormats ==
    \A p \in OrderedPairs :
        LET a == p[1]
            b == p[2]
        IN  (a.handled /\ b.handled /\ UnknownPreference(a)
                /\ PreferenceIs(b, PREF_balanced) /\ SameRole(a, b))
            => /\ a.response.status = b.response.status
               /\ Tiles(a) = Tiles(b)
               /\ a.response.role = b.response.role
               /\ Answered(a)
                  => /\ a.response.visualization_preference
                            = a.request.data.visualization_preference
                     /\ a.response.visualization_preference
                            # b.response.visualization_preference

C4_Witness ==
    /\ Answered(prev)
    /\ Answered(last)
    /\ PreferenceIs(prev, STR_Technical)
    /\ PreferenceIs(last, PREF_balanced)
    /\ RoleIs(prev, ROLE_safety_officer)
    /\ RoleIs(last, ROLE_safety_officer)
    /\ Tiles(prev) = Tiles(last)
    /\ Tiles(prev)[2].visualization_format = "bar_chart"

(* C5 as stated: the response for ("site_supervisor", "technical") has      *)
(* task_progress before project_overview and every tile's                   *)
(* visualization_format is "detailed_table".                                *)
SiteSupervisorTechnical(e) ==
    /\ e.handled
    /\ RoleIs(e, ROLE_site_supervisor)
    /\ PreferenceIs(e, PREF_technical)

C5_Original ==
    SiteSupervisorTechnical(last)
    => /\ Answered(last)
       /\ Before(Tiles(last), "task_progress", "project_overview")
       /\ \A i \in 1..Len(Tiles(last)) :
              Tiles(last)[i].visualization_format = "detailed_table"

(* C5 amended: the response for ("site_supervisor", "technical") has        *)
(* task_progress (priority 1) before project_overview (priority 2), and     *)
(* every tile's visualization_format is "detailed_table" except             *)
(* project_timeline, whose format is "timeline_with_details".               *)
C5_SiteSupervisorTechnical ==
    SiteSupervisorTechnical(last)
    => /\ Answered(last)
       /\ Tiles(last)[1].tile_id = "task_progress"
       /\ Tiles(last)[1].priority = 1
       /\ Tiles(last)[2].tile_id = "project_overview"
       /\ Tiles(last)[2].priority = 2
       /\ \A i \in 1..Len(Tiles(last)) :
              Tiles(last)[i].visualization_format
                  = IF Tiles(last)[i].tile_id = "project_timeline"
                    THEN "timeline_with_details"
                    ELSE "detailed_table"

C5_Witness ==
    /\ SiteSupervisorTechnical(last)
    /\ Answered(last)
    /\ \E i \in 1..Len(Tiles(last)) :
           /\ Tiles(last)[i].tile_id = "project_timeline"
           /\ Tiles(last)[i].visualization_format = "timeline_with_details"

(* C6: the response for ("CEO", "non_technical") has role "ceo"; its first  *)
(* tile is project_overview with priority 1 and format                      *)
(* "simplified_bar_chart".                                                  *)
CeoNonTechnical(e) ==
    /\ e.handled
    /\ RoleIs(e, STR_CEO)
    /\ PreferenceIs(e, PREF_non_technical)

C6_CeoNonTechnical ==
    CeoNonTechnical(last)
    => /\ Answered(last)
       /\ last.response.role = ROLE_ceo
       /\ Tiles(last)[1]
              = [tile_id |-> "project_overview", priority |-> 1,
                 visualization_format |-> "simplified_bar_chart"]

\* the ceo table, not the project_manager one: project_timeline is second
C6_Witness ==
    /\ CeoNonTechnical(last)
    /\ Answered(last)
    /\ Tiles(last)[2].tile_id = "project_timeline"

(* C7: the role is lower-cased and every space replaced by an underscore    *)
(* before lookup: two requests whose role strings are equal after this      *)
(* normalization, with the same preference, get identical responses, and    *)
(* the role field of a response is the normalized role string.              *)
C7_Normalization ==
    /\ \A p \in OrderedPairs :
           LET a == p[1]
               b == p[2]
           IN  (a.handled /\ b.handled /\ StringRole(a) /\ StringRole(b)
                   /\ NormalForm(a.request.data.role.val)
                          = NormalForm(b.request.data.role.val)
                   /\ SamePreference(a, b))
               => a.response = b.response
    /\ \A e \in Exchanges :
           (Answered(e) /\ StringRole(e))
           => e.response.role = NormalForm(e.request.data.role.val)

C7_Witness ==
    /\ Answered(prev)
    /\ Answered(last)
    /\ RoleIs(prev, STR_Site_Supervisor)
    /\ RoleIs(last, ROLE_site_supervisor)
    /\ SamePreference(prev, last)
    /\ prev.response = last.response
    /\ Tiles(last)[1].tile_id = "task_progress"

(* C8: the tile_configuration has exactly one descriptor per tile of the    *)
(* resolved role's priority mapping, with that tile's priority, and its     *)
(* visualization_format is the resolved format table's entry for the tile,  *)
(* or "summary_table" when that table has no entry for it.                  *)
C8_OneDescriptorPerTile ==
    \A e \in Exchanges :
        Answered(e)
        => LET out == Tiles(e)
               src == SourceTable(e.response.role)
               fmt == SourceFormats(e.response.visualization_preference)
           IN  /\ Len(out) = Len(src)
               /\ \A k \in 1..Len(src) :
                      /\ Cardinality({i \in 1..Len(out) :
                                         out[i].tile_id = src[k].tile_id}) = 1
                      /\ \E i \in 1..Len(out) :
                             /\ out[i].tile_id = src[k].tile_id
                             /\ out[i].priority = src[k].priority
                             /\ out[i].visualization_format
                                    = IF src[k].tile_id \in DOMAIN fmt
                                      THEN fmt[src[k].tile_id]
                                      ELSE "summary_table"

C8_Witness ==
    /\ Answered(last)
    /\ RoleIs(last, ROLE_construction_worker)
    /\ PreferenceIs(last, PREF_non_technical)
    /\ Len(Tiles(last)) = 9
    /\ Tiles(last)[9]
           = [tile_id |-> "project_timeline", priority |-> 7,
              visualization_format |-> "simplified_timeline"]

(* C9: the resolver is total over strings: a request whose role and         *)
(* visualization_preference are strings is answered with a role, a          *)
(* visualization_preference and a tile_configuration, and never fails; an   *)
(* unknown value falls back to the defaults.                                *)
C9_TotalOverStrings ==
    \A e \in Exchanges :
        (e.handled /\ StringRole(e) /\ StringPreference(e))
        => /\ e.response.status = 200
           /\ e.response.role = NormalForm(e.request.data.role.val)
           /\ e.response.visualization_preference
                  = e.request.data.visualization_preference
           /\ Len(Tiles(e)) > 0
           /\ {Tiles(e)[i].tile_id : i \in 1..Len(Tiles(e))}
                  = {SourceTable(e.response.role)[i].tile_id :
                         i \in 1..Len(SourceTable(e.response.role))}

C9_Witness ==
    /\ Answered(last)
    /\ UnknownRole(last)
    /\ UnknownPreference(last)
    /\ Tiles(last)[1].tile_id = "project_overview"
    /\ Tiles(last)[1].visualization_format = "summary_table"

(* C10: both fields of the body are optional: a request without role is     *)
(* answered as the one with role "project_manager", a request without       *)
(* visualization_preference as the one with preference "balanced", and a    *)
(* request does not fail because a field is absent.                         *)
C10_OptionalFields ==
    /\ \A p \in OrderedPairs :
           LET a == p[1]
               b == p[2]
           IN  /\ (a.handled /\ b.handled /\ a.request.has_json
                      /\ ~HasRole(a) /\ RoleIs(b, ROLE_project_manager)
                      /\ SamePreference(a, b))
                  => a.response = b.response
               /\ (a.handled /\ b.handled /\ a.request.has_json
                      /\ ~HasPreference(a) /\ PreferenceIs(b, PREF_balanced)
                      /\ SameRole(a, b))
                  => a.response = b.response
    /\ \A e \in Exchanges :
           (e.handled /\ e.request.has_json
               /\ (~HasRole(e) \/ StringRole(e))
               /\ (~HasPreference(e) \/ StringPreference(e)))
           => e.response.status = 200

C10_Witness ==
    /\ Answered(prev)
    /\ Answered(last)
    /\ prev.request.has_json
    /\ ~HasRole(prev)
    /\ ~HasPreference(prev)
    /\ RoleIs(last, ROLE_project_manager)
    /\ PreferenceIs(last, PREF_balanced)
    /\ prev.response = last.response
    /\ prev.response.role = ROLE_project_manager

(* C11: the resolver is pure and idempotent: two /api/dashboard-config      *)
(* requests with identical inputs get identical responses, whatever         *)
(* requests to the other endpoints were handled in between, and a           *)
(* dashboard-config request changes nothing the server keeps.               *)
C11_SameInputSameOutput ==
    (prev.handled /\ last.handled /\ prev.request = last.request)
    => prev.response = last.response

C11_PureIdempotent ==
    /\ []C11_SameInputSameOutput
    /\ [][(prev' # prev \/ last' # last) => UNCHANGED server_vars]_vars

C11_Witness ==
    /\ Answered(prev)
    /\ Answered(last)
    /\ prev.request = last.request
    /\ RoleIs(last, STR_CEO)
    /\ prev.response = last.response
    /\ worker_agents # EmptyDict
    /\ design_decisions # EmptyDict
    /\ srv_last.endpoint = "update_visualization"
    /\ srv_last.response.status = 200

(* C12 as stated: handlers share no mutable state, so the result of a       *)
(* request is one it could get from a freshly started server, whatever      *)
(* requests were handled before it.                                         *)
FreshResponses(endpoint, args) ==
    CASE endpoint = "design_layout" ->
            {design_layout_response(l) : l \in Layouts}
      [] endpoint = "assign_workers" ->
            {[status |-> 200, body |-> w] : w \in [args.tiles -> WorkerTasks]}
      [] endpoint = "generate_visualizations" ->
            {[status |-> 200, body |-> EmptyDict]}
      [] endpoint = "update_visualization" ->
            {[status |-> 404, body |-> NotFound]}

C12_Original ==
    /\ srv_last.handled
       => srv_last.response \in FreshResponses(srv_last.endpoint, srv_last.args)
    /\ last.handled => last.response \in Responses(last.request)

(* C12 amended: besides the static tables the handlers share the            *)
(* worker_agents registry and the queen's design_decisions.  The results of *)
(* dashboard-config, design-layout and assign-workers are those of a        *)
(* freshly started server; generate-visualizations answers for exactly the  *)
(* registered workers and update-visualization answers 404 exactly when     *)
(* the tile has no registered worker.                                       *)
C12_SharedRegistryOnly ==
    /\ (srv_last.handled
           /\ srv_last.endpoint \in {"design_layout", "assign_workers"})
       => srv_last.response \in FreshResponses(srv_last.endpoint, srv_last.args)
    /\ last.handled => last.response \in Responses(last.request)
    /\ (srv_last.handled /\ srv_last.endpoint = "generate_visualizations")
       => DOMAIN srv_last.response.body = DOMAIN worker_agents
    /\ (srv_last.handled /\ srv_last.endpoint = "update_visualization")
       => /\ srv_last.response.status \in {200, 404}
          /\ srv_last.response.status = 404
                 <=> srv_last.args.tile_id \notin DOMAIN worker_agents
          /\ srv_last.response.status = 200
                 => srv_last.response.body.metadata
                        = worker_agents[srv_last.args.tile_id].worker_task

C12_Witness ==
    /\ srv_last.handled
    /\ srv_last.endpoint = "assign_workers"
    /\ srv_last.args.tiles = {"task_progress"}
    /\ DOMAIN worker_agents = LayoutTiles
    /\ worker_agents["project_overview"].visualization_code = "code1"

(* C13: every connection opened while handling a request is closed before  *)
(* the response is returned, on the failure path as on the success path,    *)
(* so that no connection outlives its request.                              *)
C13_ConnectionsClosed ==
    /\ db_last.handled => db_last.run.opened = db_last.run.closed
    /\ open_connections = 0

(* C16 as stated: the query an entity getter builds has exactly one         *)
(* `column = placeholder` fragment per supplied filter, joined by AND, the  *)
(* parameter list has the value of the i-th fragment's column at i, and     *)
(* with no supplied filter there is no WHERE clause.                        *)
BuiltStatement(e) ==
    /\ e.handled
    /\ e.handler \in {"db_utils.get_projects", "db_utils.get_tasks",
                      "TasksTool.run"}
    /\ e.run.sql # NoStatement

SupportedFilters(e) ==
    IF e.handler = "db_utils.get_projects"
    THEN {"status", "location", "manager"}
    ELSE {"project_id", "status", "assigned_to", "priority"}

BaseQuery(e) ==
    IF e.handler = "db_utils.get_projects"
    THEN "SELECT * FROM projects"
    ELSE "SELECT * FROM tasks"

RECURSIVE AndJoined(_, _)
AndJoined(fragments, n) ==
    IF n = 1 THEN fragments[1]
    ELSE AndJoined(fragments, n - 1) \o " AND " \o fragments[n]

\* the statement is the one for the filters in `supplied`
StatementFor(e, supplied) ==
    LET sql == e.run.sql
        n == Len(sql.where_clauses)
    IN  /\ n = Cardinality(supplied)
        /\ Len(sql.params) = n
        /\ \A c \in supplied :
               Cardinality({i \in 1..n : sql.where_clauses[i] = c \o " = %s"}) = 1
        /\ \A i \in 1..n :
               \E c \in supplied : /\ sql.where_clauses[i] = c \o " = %s"
                                   /\ sql.params[i] = e.args[c]
        /\ sql.query = IF n = 0 THEN BaseQuery(e)
                       ELSE BaseQuery(e) \o " WHERE "
                                \o AndJoined(sql.where_clauses, n)

C16_Original ==
    BuiltStatement(db_last)
    => StatementFor(db_last, DOMAIN db_last.args \cap SupportedFilters(db_last))

(* C16 amended: the same, where a filter counts as supplied to              *)
(* db_utils.get_tasks / get_projects when its key is in the filters dict    *)
(* and to TasksTool.run when its argument is neither None nor the empty     *)
(* string: an empty-string argument is dropped like an absent one.          *)
SuppliedFilters(e) ==
    IF e.handler = "TasksTool.run"
    THEN {c \in DOMAIN e.args \cap SupportedFilters(e) : e.args[c] # ""}
    ELSE DOMAIN e.args \cap SupportedFilters(e)

C16_FilterQuery ==
    BuiltStatement(db_last) => StatementFor(db_last, SuppliedFilters(db_last))

C16_Witness ==
    /\ db_last.handled
    /\ db_last.handler = "TasksTool.run"
    /\ db_last.args = [project_id |-> "1", status |-> "", priority |-> "High"]
    /\ db_last.run.sql.query
           = "SELECT * FROM tasks WHERE project_id = %s AND priority = %s"
    /\ db_last.run.sql.params = <<"1", "High">>
    /\ db_last.run.outcome = "returned"
    /\ Cardinality(db_last.run.result) = 2

(* C14: a database failure during a request of src/app.py (the connection  *)
(* fails, the statement is malformed or fails) is reported as a 4xx/5xx    *)
(* response with a message, and the failed statement is the last one the   *)
(* request sends (no retry, no recovery).                                   *)
SqHandled(e, handler) ==
    /\ e.handled
    /\ e.handler = handler

SqRoutes == {"app.get_projects", "app.query_db", "app.add_task"}

DatabaseFailure(run) ==
    \E i \in 1..Len(run.calls) : run.calls[i].outcome # "ok"

C14_FailuresReported ==
    (/\ db_last.handled
     /\ db_last.handler \in SqRoutes
     /\ DatabaseFailure(db_last.run))
    => /\ db_last.run.status \in 400..599
       /\ "error" \in DOMAIN db_last.run.result
       /\ db_last.run.calls[Len(db_last.run.calls)].outcome # "ok"
       /\ \A i \in 1..(Len(db_last.run.calls) - 1) :
              db_last.run.calls[i].outcome = "ok"

(* C17: POST /api/query rejects with 403, and leaves the database as it     *)
(* was, any SQL that would remove or overwrite existing rows or tables.     *)
\* what the statement would do to the database the request found
WouldLeave(e) ==
    sql_apply(e.before, SqSchema, sql_parse(e.args.sql), <<>>, 0).db

Destructive(before, after) ==
    \E table \in DOMAIN before :
        \/ table \notin DOMAIN after
        \/ ~(before[table] \subseteq after[table])

InsertSucceeded(e) ==
    /\ SqHandled(e, "app.add_task")
    /\ \A i \in 1..Len(required_fields) : required_fields[i] \in DOMAIN e.args
    /\ Len(e.run.calls) >= 1
    /\ \A i \in 1..Len(e.run.calls) : e.run.calls[i].outcome = "ok"

C19_InsertedTaskReturned ==
    InsertSucceeded(db_last)
    => /\ db_last.run.status = 200
       /\ db_last.run.result.success
       /\ db_last.run.result.task \in sq_db.tasks \ db_last.before.tasks
       /\ \A i \in 1..Len(required_fields) :
              db_last.run.result.task[required_fields[i]]
                  = db_last.args[required_fields[i]]

(* C15: db_utils.execute_query either commits the statement and returns     *)
(* its rows, or raises after rolling the transaction back (the database is  *)
(* as before); either way every connection opened during the call is closed *)
(* and the statement is executed at most once.                              *)
Count(events, event) ==
    Cardinality({i \in 1..Len(events) : events[i] = event})

C15_CommitOrRollback ==
    (db_last.handled /\ db_last.handler = "db_utils.execute_query")
    => LET run == db_last.run
       IN  /\ run.outcome \in {"returned", "raised"}
           /\ run.outcome = "returned"
                  => /\ Count(run.events, "commit") = 1
                     /\ Count(run.events, "rollback") = 0
                     /\ Count(run.events, "execute") = 1
                     /\ db_last.args.fetch => run.result.kind = "rows"
           /\ run.outcome = "raised"
                  => /\ Count(run.events, "execute") = 1
                            => Count(run.events, "rollback") = 1
                     /\ pg_db = db_last.before
           /\ Count(run.events, "execute") <= 1
           /\ run.opened = run.closed

(* C18: no call of CustomQueryTool.run changes the contents or the schema   *)
(* of the database, and a query that is not a pure read returns the error   *)
(* value without being executed.                                            *)
ReadKinds == {"select", "select_one", "select_by_id", "last_insert_rowid"}

PureRead(query) ==
    LET statements == pg_statements(query)
    IN  /\ Len(statements) = 1
        /\ sql_parse(statements[1]).kind \in ReadKinds

C18_SelectOnly ==
    (db_last.handled /\ db_last.handler = "CustomQueryTool.run")
    => /\ pg_db = db_last.before
       /\ ~PureRead(db_last.args.query)
              => /\ db_last.run.result = PgError
                 /\ Count(db_last.run.events, "execute") = 0

(* C20: the saved exchanges WorkerAI.process_message puts into the LLM      *)
(* request are the up-to-5 most recent ones of that user for that role:    *)
(* with more than 5 saved, exactly the 5 with the latest timestamps.        *)
SavedBefore(e) ==
    LET Mine(row) == row.user_id = e.user_id /\ row.role = e.role
    IN  SelectSeq(SubSeq(conversation_history, 1, e.saved_before), Mine)

MostRecent(rows, n) ==
    {row \in {rows[i] : i \in 1..Len(rows)} :
        Cardinality({i \in 1..Len(rows) : rows[i].timestamp > row.timestamp}) < n}

C20_FiveMostRecent ==
    (wa_last.handled /\ wa_last.history_read)
    => /\ {wa_last.included[i] : i \in 1..Len(wa_last.included)}
              = MostRecent(SavedBefore(wa_last), 5)
       /\ Len(wa_last.included) = Cardinality(MostRecent(SavedBefore(wa_last), 5))

(* C25: /api/update-visualization for tile t is answered 404, and the      *)
(* registry of workers is left as it was, unless an earlier assign-workers  *)
(* request created a worker for t; otherwise it is answered by the worker   *)
(* that the latest assign-workers request with t created.                   *)
AssignedIn(tile_id) ==
    {i \in 1..Len(assign_log) : tile_id \in DOMAIN assign_log[i]}

LatestAssign(tile_id) ==
    CHOOSE i \in AssignedIn(tile_id) : \A j \in AssignedIn(tile_id) : j <= i

UpdateAnswered(e) ==
    /\ e.handled
    /\ e.endpoint = "update_visualization"

C25_AnsweredByLatestWorker ==
    UpdateAnswered(srv_last)
    => LET t == srv_last.args.tile_id
       IN  IF AssignedIn(t) = {}
           THEN /\ srv_last.response.status = 404
                /\ t \notin DOMAIN worker_agents
           ELSE /\ srv_last.response.status = 200
                /\ srv_last.response.body.tile_id = t
                /\ srv_last.response.body.metadata = assign_log[LatestAssign(t)][t]
                /\ worker_agents[t].created_by = LatestAssign(t)
                /\ worker_agents[t].visualization_code = srv_last.response.body.code

C25_NotFoundInvokesNoWorker ==
    (UpdateAnswered(srv_last') /\ srv_last'.response.status = 404)
    => worker_agents' = worker_agents

C25_UpdateVisualization ==
    /\ []C25_AnsweredByLatestWorker
    /\ [][C25_NotFoundInvokesNoWorker]_vars

C25_Witness ==
    /\ UpdateAnswered(srv_last)
    /\ srv_last.args.tile_id = "project_overview"
    /\ Len(assign_log) = 2
    /\ AssignedIn("project_overview") = {1, 2}
    /\ assign_log[1]["project_overview"] = "taskA"
    /\ assign_log[2]["project_overview"] = "taskB"
    /\ srv_last.response.status = 200
    /\ srv_last.response.body.metadata = "taskB"
    /\ worker_agents["project_overview"].created_by = 2

(* C24: PATCH /api/tasks/<id> whose body has none of name, description,    *)
(* status, priority, assigned_to, due_date is answered 400 and executes no  *)
(* statement; otherwise the executed UPDATE changes exactly the supplied    *)
(* ones of those six fields on the task with that id, and leaves every      *)
(* other column, every other task and every other table as they were.       *)
UpdatableFields ==
    {"name", "description", "status", "priority", "assigned_to", "due_date"}

Patched(row, task_id, data) ==
    IF row.id # task_id THEN row
    ELSE [c \in DOMAIN row |->
             IF c \in UpdatableFields \cap DOMAIN data THEN data[c] ELSE row[c]]

UpdateTaskHandled(e) ==
    /\ e.handled
    /\ e.handler = "app.update_task"

C24_UpdateTask ==
    UpdateTaskHandled(db_last)
    => LET data == db_last.args.data
           task_id == db_last.args.task_id
           run == db_last.run
       IN  IF UpdatableFields \cap DOMAIN data = {}
           THEN /\ run.status = 400
                /\ run.calls = <<>>
                /\ run.db = db_last.before
           ELSE /\ run.status # 400
                /\ run.calls # <<>>
                /\ run.db.projects = db_last.before.projects
                /\ run.db.tasks =
                       IF run.calls[1].outcome = "ok"
                       THEN {Patched(row, task_id, data) : row \in db_last.before.tasks}
                       ELSE db_last.before.tasks
                /\ sq_db = run.db

C24_Witness ==
    /\ UpdateTaskHandled(db_last)
    /\ db_last.args.data = [name |-> "Frame", note |-> "x"]
    /\ db_last.args.task_id = 1
    /\ db_last.run.status = 200
    /\ Cardinality(db_last.before.tasks) = 2
    /\ \E row \in db_last.before.tasks : row.id = 1 /\ row.name = "Pour"
    /\ db_last.run.result.task.name = "Frame"
    /\ db_last.run.result.task.status = "Open"
    /\ \E row \in sq_db.tasks : row.id = 2 /\ row \in db_last.before.tasks

(* C23: get_dashboard_layout returns, for a user and a role, the layout of  *)
(* the latest save_dashboard_layout that returned True for them; when the    *)
(* user has no preferences for the role it returns the role's default        *)
(* layout and stores it, so that later calls return that layout.  (A call    *)
(* whose database read fails is answered with the default layout; the claim  *)
(* is about the calls that read the table.)                                   *)
LayoutRead(e) ==
    /\ e.handled
    /\ e.route = "get"
    /\ e.run.status = 200
    /\ e.run.read

LayoutKey(e) ==
    <<e.user_id, e.run.role>>

\* the layout that the row of a key holds
Stored(key) ==
    {json_loads(row.dashboard_layout) :
        row \in {r \in user_preferences : <<r.user_id, r.role>> = key}}

C23_DefaultWitness ==
    /\ LayoutRead(layout_last)
    /\ LayoutKey(layout_last) = <<"u2", "ceo">>
    /\ LayoutKey(layout_last) \in DOMAIN layout_last.saved_before
    /\ layout_last.run.layout = create_default_dashboard_layout("ceo")
    /\ ~layout_last.run.called_save

(* C21: an executed cleanup (dry_run = False) of a table with more than     *)
(* keep_count rows leaves exactly the keep_count rows with the latest        *)
(* timestamps, for clean_conversations on a detected conversation table and  *)
(* for clean_table on a table of DYNAMIC_TABLES.                              *)
TimestampColumn ==
    [conversation_history |-> "timestamp", user_preferences |-> "last_updated",
     dashboard_items |-> "last_updated",
     equipment_maintenance_log |-> "maintenance_date", orders |-> "order_date"]

CleanupExecuted(e) ==
    /\ e.handled
    /\ e.function \in {"clean_table", "clean_conversations"}
    /\ ~e.dry_run
    /\ e.run.outcome = "ok"
    /\ e.args.name \in DOMAIN e.before[e.db_path]
    /\ Cardinality(e.before[e.db_path][e.args.name]) > e.args.keep_count

C21_KeepsMostRecent ==
    CleanupExecuted(clean_last)
    => LET name == clean_last.args.name
           before == clean_last.before[clean_last.db_path][name]
           after == clean_db[clean_last.db_path][name]
           time == TimestampColumn[name]
       IN  /\ after \subseteq before
           /\ Cardinality(after) = clean_last.args.keep_count
           /\ \A kept \in after, deleted \in before \ after :
                  kept[time] > deleted[time]

(* C22: a dry run (dry_run = True) of clean_conversations, clean_table,     *)
(* clean_related_items or delete_empty_preferences executes no DELETE and  *)
(* no VACUUM, and leaves every table with the rows it had.                  *)
C22_DryRunChangesNothing ==
    (clean_last.handled /\ clean_last.dry_run)
    => /\ clean_last.run.statements = <<>>
       /\ clean_db = clean_last.before
       /\ clean_last.run.tables = clean_last.before[clean_last.db_path]

C22_Witness ==
    /\ clean_last.handled
    /\ clean_last.dry_run
    /\ clean_last.function = "clean_table"
    /\ clean_last.args.name = "orders"
    /\ clean_last.run.returned = 2
    /\ Cardinality(clean_db[SQL_DB].orders) = 7

====
